---------------------------- MODULE Spec2Model ----------------------------
(***************************************************************************)
(* A model of the eveTrading route finders, jump planner, scorers and       *)
(* portfolio manager.                                                      *)
(*                                                                         *)
(*   EfficientRouteFinder       src/profitable_route_finder_efficient.py   *)
(*   FinalOptimizedRouteFinder  src/profitable_route_finder_final_old.py   *)
(*   JumpPlanner                src/jump_planner.py                        *)
(*   PortfolioManager           src/portfolio_manager.py                   *)
(*                                                                         *)
(* Units.  Order prices are whole thousands of ISK (kISK); profits and     *)
(* costs are whole ISK, so that  buy_price * quantity * cost_multiplier    *)
(* (a multiplier of 0.02 is 20 per mille) is an exact integer.  A ratio    *)
(* the code keeps as a float (profit_percent, isk_per_hour, cost_per_m3)   *)
(* is the record [num, den] and is compared by cross-multiplication.       *)
(* isk_per_hour is kept in units of 10 ISK per hour, which keeps every     *)
(* product below 2^31.  Distances and jump ranges are tenths of a light    *)
(* year.  The cash, the values and the fees of the portfolio manager are   *)
(* hundredths of an ISK and its prices whole ISK, so that the fee of 1 per *)
(* cent is an exact integer.                                               *)
(***************************************************************************)
EXTENDS Integers, Sequences, FiniteSets, TLC

VARIABLES
    finder,          \* which route finder runs: "efficient" or "final"
    task,            \* per hub: "running", "returned" (data) or "failed" ({})
    page,            \* per hub: the local variable page of the fetch loop
    all_orders,      \* per hub: all_orders (efficient), the raw orders fetched
    orders_by_type,  \* per hub: orders_by_type (final), type_id -> raw orders
    relevant_orders, \* per hub: relevant_orders (efficient), after the filter
    market_data,     \* per hub: the value the hub task returned to gather
    requests,        \* per hub: the page numbers requested, in order
    last_response,   \* per hub: the kind of the last response handled
    api_calls,       \* self.api_calls, shared by the hub tasks
    total_orders,    \* self.total_orders (efficient), shared
    fresh_orders,    \* self.fresh_orders (efficient), shared
    written_by,      \* per attribute of self: the hub tasks that assigned to it
    phase,           \* "fetch", "done" once the routes are returned, "again" once re-evaluated
    routes,          \* the list the finder returned
    book,            \* per hub: what the provider served: page counts and the orders
    cargo_ships,     \* self.cargo_ships of the planner, in the order of the dict
    trade,           \* the arguments of a call of analyze_transport_efficiency
    efficiency,      \* the TransportEfficiency that call returned
    score_args,      \* the arguments of the latest call of a scorer
    score_result,    \* what that call returned: the score and the verdict
    prev_call,       \* the call of the scorer before the latest one
    current_cash,    \* self.current_cash of the portfolio manager
    portfolio,       \* self.portfolio: type_id -> the holding
    trade_history,   \* self.trade_history: the trades executed, in order
    trade_calls,     \* the number of calls of add_trade made
    add_trade_call   \* the latest call of add_trade: its arguments and what it returned

finderVars == << finder, task, page, all_orders, orders_by_type, relevant_orders,
                 market_data, requests, last_response, api_calls, total_orders,
                 fresh_orders, written_by, phase, routes, book >>

plannerVars == << cargo_ships, trade, efficiency >>

scorerVars == << score_args, score_result, prev_call >>

portfolioVars == << current_cash, portfolio, trade_history, trade_calls, add_trade_call >>

vars == << finderVars, plannerVars, scorerVars, portfolioVars >>

\* No call made.
NoCall == [status |-> "none"]

-----------------------------------------------------------------------------
(* Sequences and arithmetic *)

Min2(a, b) == IF a <= b THEN a ELSE b

Max2(a, b) == IF a >= b THEN a ELSE b

Min3(a, b, c) == Min2(Min2(a, b), c)

Range(s) == { s[i] : i \in 1..Len(s) }

RECURSIVE SumSeq(_)
SumSeq(s) == IF s = << >> THEN 0 ELSE Head(s) + SumSeq(Tail(s))

Prices(orders) == { o.price : o \in Range(orders) }

SetMin(S) == CHOOSE x \in S : \A y \in S : x <= y

SetMax(S) == CHOOSE x \in S : \A y \in S : x >= y

Rat(n, d) == [num |-> n, den |-> d]

\* r > k for a ratio r with a positive denominator
RatGt(r, k) == r.num > k * r.den

\* r < k
RatLt(r, k) == r.num < k * r.den

\* r1 < r2
RatLess(r1, r2) == r1.num * r2.den < r2.num * r1.den

-----------------------------------------------------------------------------
(* Tables of the two route finders *)

\* The hubs the finders scan, in the iteration order of the HUBS dict.
HUBS == << "Jita", "Amarr" >>

HubSet == Range(HUBS)

\* The five hubs of the HUBS dict of either finder, in its iteration order.
ALL_HUBS == << "Jita", "Amarr", "Dodixie", "Rens", "Hek" >>

AllHubSet == Range(ALL_HUBS)

\* EfficientRouteFinder.HUBS[hub]["station_id"], shortened to small numbers.
station_id ==
    [h \in AllHubSet |-> 600 + (CHOOSE i \in 1..Len(ALL_HUBS) : ALL_HUBS[i] = h)]

\* A location of the same region that is not the hub's station.
OtherLocation == 699

\* The requested items: EfficientRouteFinder.ITEMS, and type_ids of the final
\* finder (what get_profitable_items returned), in iteration order.
ITEMS == << 34, 35 >>

ItemSet == Range(ITEMS)

\* An item of the regional order book that nobody asked for.
OtherItem == 99

\* `while page <= 10`
PageCeiling == 10

\* is_fresh: `age_hours < 12`
FreshHours == 12

\* FinalOptimizedRouteFinder.TRAVEL_DATA; cost_multiplier in per mille.
TravelRow(j, m, c) == [jumps |-> j, minutes |-> m, cost_multiplier |-> c]

TRAVEL_DATA ==
    ( << "Jita", "Amarr" >>    :> TravelRow(9, 20, 20)  @@
      << "Jita", "Dodixie" >>  :> TravelRow(15, 32, 30) @@
      << "Jita", "Rens" >>     :> TravelRow(23, 48, 40) @@
      << "Jita", "Hek" >>      :> TravelRow(25, 52, 50) @@
      << "Amarr", "Dodixie" >> :> TravelRow(17, 36, 25) @@
      << "Amarr", "Rens" >>    :> TravelRow(28, 58, 35) @@
      << "Amarr", "Hek" >>     :> TravelRow(30, 62, 45) @@
      << "Dodixie", "Rens" >>  :> TravelRow(12, 26, 20) @@
      << "Dodixie", "Hek" >>   :> TravelRow(18, 38, 30) @@
      << "Rens", "Hek" >>      :> TravelRow(6, 14, 15) )

\* The lookup of the travel data by route_key alone: a pair listed in the
\* other direction gets the default.
TravelForDirectOnly(buy_hub, sell_hub) ==
    IF << buy_hub, sell_hub >> \in DOMAIN TRAVEL_DATA
    THEN TRAVEL_DATA[<< buy_hub, sell_hub >>]
    ELSE TravelRow(15, 35, 35)

\* The travel row of a route: the pair, the reversed pair, or the default.
TravelFor(buy_hub, sell_hub) ==
    IF << buy_hub, sell_hub >> \in DOMAIN TRAVEL_DATA
    THEN TRAVEL_DATA[<< buy_hub, sell_hub >>]
    ELSE IF << sell_hub, buy_hub >> \in DOMAIN TRAVEL_DATA
    THEN TRAVEL_DATA[<< sell_hub, buy_hub >>]
    ELSE TravelRow(15, 35, 35)

\* TraderProfile.hourly_opportunity_cost, ISK per hour.
hourly_opportunity_cost == 50000000

-----------------------------------------------------------------------------
(* The scorer of the final finder: _evaluate_route_ai *)

\* The profit percentage points with the top two tiers exchanged.
ProfitPctPointsExchanged(profit_pct) ==
    IF RatGt(profit_pct, 20) THEN 20
    ELSE IF RatGt(profit_pct, 15) THEN 25
    ELSE IF RatGt(profit_pct, 10) THEN 15
    ELSE IF RatGt(profit_pct, 7) THEN 10
    ELSE IF RatGt(profit_pct, 5) THEN 5
    ELSE 0

\* Profit percentage (0-25 points)
ProfitPctPoints(profit_pct) ==
    IF RatGt(profit_pct, 20) THEN 25
    ELSE IF RatGt(profit_pct, 15) THEN 20
    ELSE IF RatGt(profit_pct, 10) THEN 15
    ELSE IF RatGt(profit_pct, 7) THEN 10
    ELSE IF RatGt(profit_pct, 5) THEN 5
    ELSE 0

\* ISK per hour vs opportunity cost (0-25 points).  isk_per_hour is in units
\* of 10 ISK per hour, and so is hourly_target; the factors 3, 2, 1.5, 1 and
\* 0.7 are tenths.
IskPerHourPoints(isk_per_hour) ==
    LET hourly_target == hourly_opportunity_cost \div 10
    IN  IF RatGt(isk_per_hour, (hourly_target * 3)) THEN 25
        ELSE IF RatGt(isk_per_hour, (hourly_target * 2)) THEN 20
        ELSE IF RatGt(isk_per_hour, ((hourly_target * 15) \div 10)) THEN 15
        ELSE IF RatGt(isk_per_hour, hourly_target) THEN 10
        ELSE IF RatGt(isk_per_hour, ((hourly_target * 7) \div 10)) THEN 5
        ELSE 0

\* Net profit absolute (0-20 points)
NetProfitPoints(net_profit) ==
    IF net_profit > 5000000 THEN 20
    ELSE IF net_profit > 2000000 THEN 15
    ELSE IF net_profit > 1000000 THEN 10
    ELSE IF net_profit > 500000 THEN 5
    ELSE 0

\* Volume/liquidity (0-15 points)
LiquidityPoints(available, demand) ==
    LET min_volume == Min2(available, demand)
    IN  IF min_volume > 500 THEN 15
        ELSE IF min_volume > 200 THEN 10
        ELSE IF min_volume > 100 THEN 8
        ELSE IF min_volume > 50 THEN 5
        ELSE 0

\* Distance efficiency (0-10 points)
DistancePoints(jumps) ==
    IF jumps < 12 THEN 10
    ELSE IF jumps < 18 THEN 7
    ELSE IF jumps < 25 THEN 4
    ELSE 0

\* The market balance given twice its points.
BalancePointsDoubled(available, demand) ==
    LET balance == IF Max2(available, demand) > 0
                   THEN Rat(Min2(available, demand), Max2(available, demand))
                   ELSE Rat(0, 1)
    IN  IF 10 * balance.num > 7 * balance.den THEN 10
        ELSE IF 10 * balance.num > 4 * balance.den THEN 6
        ELSE 0

\* Market balance (0-5 points): balance = min / max, or 0 when max is 0
BalancePoints(available, demand) ==
    LET balance == IF Max2(available, demand) > 0
                   THEN Rat(Min2(available, demand), Max2(available, demand))
                   ELSE Rat(0, 1)
    IN  IF 10 * balance.num > 7 * balance.den THEN 5
        ELSE IF 10 * balance.num > 4 * balance.den THEN 3
        ELSE 0

\* _evaluate_route_ai with the distance counted twice and no cap.
_evaluate_route_ai_uncapped(profit_pct, quantity, isk_per_hour, net_profit, jumps, available, demand) ==
    ProfitPctPoints(profit_pct) + IskPerHourPoints(isk_per_hour)
    + NetProfitPoints(net_profit) + LiquidityPoints(available, demand)
    + 2 * DistancePoints(jumps) + BalancePoints(available, demand)

\* _evaluate_route_ai: the score accumulated factor by factor, then min(100, score)
_evaluate_route_ai(profit_pct, quantity, isk_per_hour, net_profit, jumps, available, demand) ==
    LET score == ProfitPctPoints(profit_pct) + IskPerHourPoints(isk_per_hour)
                 + NetProfitPoints(net_profit) + LiquidityPoints(available, demand)
                 + DistancePoints(jumps) + BalancePoints(available, demand)
    IN  Min2(100, score)

\* The verdict with the thresholds inclusive.
FinalVerdictInclusive(ai_score) ==
    IF ai_score >= 85 THEN "EXCELLENT"
    ELSE IF ai_score >= 75 THEN "VERY GOOD"
    ELSE IF ai_score >= 65 THEN "GOOD"
    ELSE "DECENT"

\* analyze_item_routes: the verdict of a route whose ai_score passed the filter
FinalVerdict(ai_score) ==
    IF ai_score > 85 THEN "EXCELLENT"
    ELSE IF ai_score > 75 THEN "VERY GOOD"
    ELSE IF ai_score > 65 THEN "GOOD"
    ELSE "DECENT"

\* analyze_item_routes: `if ai_score < 40: continue`
FinalApproves(ai_score) == ~(ai_score < 40)

-----------------------------------------------------------------------------
(* The scorer of the efficient finder: ai_evaluate *)

\* Profit percentage scoring
EffProfitPctPoints(profit_pct) ==
    IF RatGt(profit_pct, 100) THEN 50
    ELSE IF RatGt(profit_pct, 50) THEN 40
    ELSE IF RatGt(profit_pct, 25) THEN 30
    ELSE IF RatGt(profit_pct, 15) THEN 25
    ELSE IF RatGt(profit_pct, 10) THEN 20
    ELSE IF RatGt(profit_pct, 5) THEN 15
    ELSE IF RatGt(profit_pct, 2) THEN 10
    ELSE 0

\* Total profit scoring
EffTotalProfitPoints(total_profit) ==
    IF total_profit > 10000000 THEN 25
    ELSE IF total_profit > 1000000 THEN 15
    ELSE IF total_profit > 500000 THEN 10
    ELSE IF total_profit > 100000 THEN 5
    ELSE 0

\* Volume scoring that gives a volume above 1000 as many points as the
\* CONSIDER verdict needs.
EffVolumePointsHigh(volume) ==
    IF volume > 1000 THEN 35
    ELSE IF volume > 100 THEN 10
    ELSE IF volume > 20 THEN 5
    ELSE 0

\* Volume scoring
EffVolumePoints(volume) ==
    IF volume > 1000 THEN 15
    ELSE IF volume > 100 THEN 10
    ELSE IF volume > 20 THEN 5
    ELSE 0

\* The local variable score of ai_evaluate when it reaches the decision.
ai_evaluate_score(profit_pct, total_profit, volume) ==
    EffProfitPctPoints(profit_pct) + EffTotalProfitPoints(total_profit)
    + EffVolumePoints(volume)

\* ai_evaluate: the AI decision on the score
EfficientVerdict(score) ==
    IF score >= 80 THEN "EXCELLENT"
    ELSE IF score >= 65 THEN "STRONG"
    ELSE IF score >= 50 THEN "GOOD"
    ELSE IF score >= 35 THEN "CONSIDER"
    ELSE IF score >= 20 THEN "WEAK"
    ELSE "SKIP"

\* ai_evaluate: the verdict it returns
ai_evaluate(profit_pct, total_profit, volume) ==
    EfficientVerdict(ai_evaluate_score(profit_pct, total_profit, volume))

-----------------------------------------------------------------------------
(* Orders *)

\* One record of a page of /markets/{region_id}/orders/.  issued is kept as
\* the order's age in whole hours when the hub task filters it, with
\* issued_ok FALSE for a timestamp fromisoformat cannot parse.
Order(t, loc, b, p, v, ok, age) ==
    [type_id |-> t, location_id |-> loc, is_buy_order |-> b, price |-> p,
     volume_remain |-> v, issued_ok |-> ok, issued_age |-> age]

\* EfficientRouteFinder.is_fresh
is_fresh(order) == order.issued_ok /\ order.issued_age < FreshHours

IsBuy(o) == o.is_buy_order

IsSell(o) == ~o.is_buy_order

\* order_data of fetch_region_data
OrderData(o) == [price |-> o.price, volume |-> o.volume_remain]

RECURSIVE OrderDataSeq(_)
OrderDataSeq(s) ==
    IF s = << >> THEN << >> ELSE << OrderData(Head(s)) >> \o OrderDataSeq(Tail(s))

RECURSIVE SumVolume(_)
SumVolume(s) == IF s = << >> THEN 0 ELSE Head(s).volume + SumVolume(Tail(s))

RECURSIVE SumVolumeRemain(_)
SumVolumeRemain(s) ==
    IF s = << >> THEN 0 ELSE Head(s).volume_remain + SumVolumeRemain(Tail(s))

\* The types that have an order in a list of raw orders.
TypesOf(orders) == { o.type_id : o \in Range(orders) }

\* fetch_region_data, lines 104-111: the station, item and freshness filter
RelevantOrders(hub, orders) ==
    LET Keep(o) == /\ o.location_id = station_id[hub]
                   /\ o.type_id \in ItemSet
                   /\ is_fresh(o)
    IN  SelectSeq(orders, Keep)

\* fetch_region_data, lines 116-132: items_data, grouped by item and side
ItemsData(relevant) ==
    [t \in TypesOf(relevant) |->
        LET OfType(o) == o.type_id = t
            mine == SelectSeq(relevant, OfType)
        IN  [buy_orders  |-> OrderDataSeq(SelectSeq(mine, IsBuy)),
             sell_orders |-> OrderDataSeq(SelectSeq(mine, IsSell))]]

\* fetch_hub_market_orders, lines 208-210: the orders of one page appended to
\* orders_by_type, a dict that gets a key with the first order of that type
AppendByType(by_type, orders) ==
    LET Wanted(o) == o.type_id \in ItemSet
        kept == SelectSeq(orders, Wanted)
    IN  [t \in (DOMAIN by_type) \cup TypesOf(kept) |->
            LET OfType(o) == o.type_id = t
            IN  (IF t \in DOMAIN by_type THEN by_type[t] ELSE << >>)
                \o SelectSeq(kept, OfType)]

\* fetch_hub_market_orders, lines 213-214: `found_items >= len(type_ids) * 0.8`
EnoughCoverage(by_type) == Cardinality(DOMAIN by_type) * 10 >= Len(ITEMS) * 8

-----------------------------------------------------------------------------
(* EfficientRouteFinder.analyze_opportunities *)

\* min(buy_vol, sell_vol, 5000)
EffMaxTradeSize == 5000

\* `transport_cost = buy_price * quantity * 0.02`, in per mille
EffCostMultiplier == 20

\* Line 252 without the cap of the trade size.
EffQuantityUncapped(buy_vol, sell_vol) == Min2(buy_vol, sell_vol)

\* Line 252: `quantity = min(buy_vol, sell_vol, 5000)`
EffQuantity(buy_vol, sell_vol) == Min3(buy_vol, sell_vol, EffMaxTradeSize)

\* The body of the loops without `if verdict not in ["SKIP", "WEAK"]`.
EffCandidateKeepingSkip(md, type_id, buy_hub, sell_hub) ==
    IF buy_hub = sell_hub THEN << >>
    ELSE IF ~(type_id \in DOMAIN md[buy_hub] /\ type_id \in DOMAIN md[sell_hub]) THEN << >>
    ELSE LET buy_data  == md[buy_hub][type_id]
             sell_data == md[sell_hub][type_id]
         IN  IF buy_data.sell_orders = << >> \/ sell_data.buy_orders = << >> THEN << >>
             ELSE LET buy_price  == SetMin(Prices(buy_data.sell_orders))
                      sell_price == SetMax(Prices(sell_data.buy_orders))
                      buy_vol    == SumVolume(buy_data.sell_orders)
                      sell_vol   == SumVolume(sell_data.buy_orders)
                      quantity   == EffQuantity(buy_vol, sell_vol)
                      gross_profit   == (sell_price - buy_price) * quantity * 1000
                      transport_cost == buy_price * quantity * EffCostMultiplier
                      net_profit     == gross_profit - transport_cost
                      profit_percent == Rat(net_profit, buy_price * quantity * 10)
                      verdict == ai_evaluate(profit_percent, net_profit, quantity)
                  IN  IF sell_price <= buy_price THEN << >>
                      ELSE IF quantity <= 0 THEN << >>
                      ELSE IF verdict \in { } THEN << >>
                      ELSE << [type_id |-> type_id, buy_hub |-> buy_hub,
                               sell_hub |-> sell_hub, buy_price |-> buy_price,
                               sell_price |-> sell_price, quantity |-> quantity,
                               net_profit |-> net_profit,
                               profit_percent |-> profit_percent,
                               ai_verdict |-> verdict] >>

\* The body of the innermost loop for one item and one ordered pair of hubs:
\* the route it appends, as a list of one, or nothing.
EffCandidate(md, type_id, buy_hub, sell_hub) ==
    IF buy_hub = sell_hub THEN << >>
    ELSE IF ~(type_id \in DOMAIN md[buy_hub] /\ type_id \in DOMAIN md[sell_hub]) THEN << >>
    ELSE LET buy_data  == md[buy_hub][type_id]
             sell_data == md[sell_hub][type_id]
         IN  IF buy_data.sell_orders = << >> \/ sell_data.buy_orders = << >> THEN << >>
             ELSE LET buy_price  == SetMin(Prices(buy_data.sell_orders))
                      sell_price == SetMax(Prices(sell_data.buy_orders))
                      buy_vol    == SumVolume(buy_data.sell_orders)
                      sell_vol   == SumVolume(sell_data.buy_orders)
                      quantity   == EffQuantity(buy_vol, sell_vol)
                      gross_profit   == (sell_price - buy_price) * quantity * 1000
                      transport_cost == buy_price * quantity * EffCostMultiplier
                      net_profit     == gross_profit - transport_cost
                      profit_percent == Rat(net_profit, buy_price * quantity * 10)
                      verdict == ai_evaluate(profit_percent, net_profit, quantity)
                  IN  IF sell_price <= buy_price THEN << >>
                      ELSE IF quantity <= 0 THEN << >>
                      ELSE IF verdict \in {"SKIP", "WEAK"} THEN << >>
                      ELSE << [type_id |-> type_id, buy_hub |-> buy_hub,
                               sell_hub |-> sell_hub, buy_price |-> buy_price,
                               sell_price |-> sell_price, quantity |-> quantity,
                               net_profit |-> net_profit,
                               profit_percent |-> profit_percent,
                               ai_verdict |-> verdict] >>

\* The three nested loops, in order: items, then buy hubs, then sell hubs.
RECURSIVE EffLoopOver(_, _, _)
EffLoopOver(hubs, md, k) ==
    LET n == Len(hubs)
    IN  IF k > Len(ITEMS) * n * n THEN << >>
        ELSE EffCandidate(md, ITEMS[((k - 1) \div (n * n)) + 1],
                          hubs[(((k - 1) \div n) % n) + 1], hubs[((k - 1) % n) + 1])
             \o EffLoopOver(hubs, md, k + 1)

\* The loops over the hubs of the model.
EffLoop(md, k) == EffLoopOver(HUBS, md, k)

\* sorted(routes, key=net_profit, reverse=True): a stable sort, so routes of
\* equal net profit keep the order in which the loops appended them.
InsertByNetProfit(sorted, r) ==
    LET n == Cardinality({ i \in 1..Len(sorted) : sorted[i].net_profit >= r.net_profit })
    IN  SubSeq(sorted, 1, n) \o << r >> \o SubSeq(sorted, n + 1, Len(sorted))

RECURSIVE SortByNetProfit(_, _)
SortByNetProfit(rest, sorted) ==
    IF rest = << >> THEN sorted
    ELSE SortByNetProfit(Tail(rest), InsertByNetProfit(sorted, Head(rest)))

\* An evaluation that sorts its routes into the list of the evaluation before.
analyze_opportunities_extending(hubs, md) == SortByNetProfit(EffLoopOver(hubs, md, 1), routes)

\* analyze_opportunities with self.HUBS as hubs.
analyze_opportunities_over(hubs, md) == SortByNetProfit(EffLoopOver(hubs, md, 1), << >>)

analyze_opportunities(md) == analyze_opportunities_over(HUBS, md)

-----------------------------------------------------------------------------
(* FinalOptimizedRouteFinder.analyze_item_routes and find_optimized_routes *)

\* `'sell_volume': min(sell_volume, 5000)`
FinalVolumeCap == 5000

\* `quantity = min(max_buy, max_sell, 1000)`
FinalMaxTradeSize == 1000

\* `if quantity < 10: continue`
FinalMinQuantity == 10

\* `if net_profit < 50000 or profit_percent < 3: continue`
FinalMinNetProfit == 50000

FinalMinProfitPercent == 3

\* `time_minutes = travel['minutes'] + 15`
DockingMinutes == 15

\* `return all_routes[:25]`
TopRoutes == 25

\* Lines 252-274: the hubs that get an entry of hub_prices for the item.
HasHubPrice(hd, type_id, hub) ==
    /\ type_id \in DOMAIN hd[hub]
    /\ hd[hub][type_id] # << >>
    /\ SelectSeq(hd[hub][type_id], IsSell) # << >>
    /\ SelectSeq(hd[hub][type_id], IsBuy) # << >>

\* hub_prices with the dearest sell order and the cheapest buy order.
HubPriceWorst(hd, type_id, hub) ==
    LET orders      == hd[hub][type_id]
        sell_orders == SelectSeq(orders, IsSell)
        buy_orders  == SelectSeq(orders, IsBuy)
    IN  [sell_price  |-> SetMax(Prices(sell_orders)),
         buy_price   |-> SetMin(Prices(buy_orders)),
         sell_volume |-> Min2(SumVolumeRemain(sell_orders), FinalVolumeCap),
         buy_volume  |-> Min2(SumVolumeRemain(buy_orders), FinalVolumeCap)]

\* Lines 259-274: hub_prices[hub_name]
HubPrice(hd, type_id, hub) ==
    LET orders      == hd[hub][type_id]
        sell_orders == SelectSeq(orders, IsSell)
        buy_orders  == SelectSeq(orders, IsBuy)
    IN  [sell_price  |-> SetMin(Prices(sell_orders)),
         buy_price   |-> SetMax(Prices(buy_orders)),
         sell_volume |-> Min2(SumVolumeRemain(sell_orders), FinalVolumeCap),
         buy_volume  |-> Min2(SumVolumeRemain(buy_orders), FinalVolumeCap)]

\* Line 292: `quantity = min(max_buy, max_sell, 1000)`
FinalQuantity(max_buy, max_sell) == Min3(max_buy, max_sell, FinalMaxTradeSize)

\* The minimum profitability filter without its test: no candidate is below
\* the minimums.
BelowMinimumsNever(net_profit, profit_percent) == FALSE

\* analyze_item_routes, line 318: the minimum profitability filter,
\* `net_profit < 50000 or profit_percent < 3`.
BelowMinimums(net_profit, profit_percent) ==
    net_profit < FinalMinNetProfit \/ RatLt(profit_percent, FinalMinProfitPercent)

\* The body of the inner loop without `if buy_hub == sell_hub: continue`.
FinalCandidateAnyPair(hd, type_id, buy_hub, sell_hub) ==
    IF FALSE THEN << >>
    ELSE IF ~(HasHubPrice(hd, type_id, buy_hub) /\ HasHubPrice(hd, type_id, sell_hub))
    THEN << >>
    ELSE LET buy_data   == HubPrice(hd, type_id, buy_hub)
             sell_data  == HubPrice(hd, type_id, sell_hub)
             buy_price  == buy_data.sell_price
             sell_price == sell_data.buy_price
             max_buy    == buy_data.sell_volume
             max_sell   == sell_data.buy_volume
             quantity   == FinalQuantity(max_buy, max_sell)
             gross_profit_total == (sell_price - buy_price) * quantity * 1000
             travel         == TravelFor(buy_hub, sell_hub)
             transport_cost == buy_price * quantity * travel.cost_multiplier
             net_profit     == gross_profit_total - transport_cost
             profit_percent == Rat(net_profit, buy_price * quantity * 10)
             time_minutes   == travel.minutes + DockingMinutes
             isk_per_hour   == IF time_minutes > 0 THEN Rat(net_profit * 6, time_minutes)
                               ELSE Rat(0, 1)
             ai_score == _evaluate_route_ai(profit_percent, quantity, isk_per_hour,
                                            net_profit, travel.jumps, max_buy, max_sell)
         IN  IF sell_price <= buy_price THEN << >>
             ELSE IF quantity < FinalMinQuantity THEN << >>
             ELSE IF BelowMinimums(net_profit, profit_percent) THEN << >>
             ELSE IF ~FinalApproves(ai_score) THEN << >>
             ELSE << [type_id |-> type_id, buy_hub |-> buy_hub, sell_hub |-> sell_hub,
                      buy_price |-> buy_price, sell_price |-> sell_price,
                      quantity |-> quantity, gross_profit |-> gross_profit_total,
                      transport_cost |-> transport_cost, net_profit |-> net_profit,
                      profit_percent |-> profit_percent, time_minutes |-> time_minutes,
                      isk_per_hour |-> isk_per_hour, ai_score |-> ai_score,
                      ai_verdict |-> FinalVerdict(ai_score)] >>

\* Lines 277-366: the body of the inner loop for one ordered pair of hubs.
FinalCandidate(hd, type_id, buy_hub, sell_hub) ==
    IF buy_hub = sell_hub THEN << >>
    ELSE IF ~(HasHubPrice(hd, type_id, buy_hub) /\ HasHubPrice(hd, type_id, sell_hub))
    THEN << >>
    ELSE LET buy_data   == HubPrice(hd, type_id, buy_hub)
             sell_data  == HubPrice(hd, type_id, sell_hub)
             buy_price  == buy_data.sell_price
             sell_price == sell_data.buy_price
             max_buy    == buy_data.sell_volume
             max_sell   == sell_data.buy_volume
             quantity   == FinalQuantity(max_buy, max_sell)
             gross_profit_total == (sell_price - buy_price) * quantity * 1000
             travel         == TravelFor(buy_hub, sell_hub)
             transport_cost == buy_price * quantity * travel.cost_multiplier
             net_profit     == gross_profit_total - transport_cost
             profit_percent == Rat(net_profit, buy_price * quantity * 10)
             time_minutes   == travel.minutes + DockingMinutes
             isk_per_hour   == IF time_minutes > 0 THEN Rat(net_profit * 6, time_minutes)
                               ELSE Rat(0, 1)
             ai_score == _evaluate_route_ai(profit_percent, quantity, isk_per_hour,
                                            net_profit, travel.jumps, max_buy, max_sell)
         IN  IF sell_price <= buy_price THEN << >>
             ELSE IF quantity < FinalMinQuantity THEN << >>
             ELSE IF BelowMinimums(net_profit, profit_percent) THEN << >>
             ELSE IF ~FinalApproves(ai_score) THEN << >>
             ELSE << [type_id |-> type_id, buy_hub |-> buy_hub, sell_hub |-> sell_hub,
                      buy_price |-> buy_price, sell_price |-> sell_price,
                      quantity |-> quantity, gross_profit |-> gross_profit_total,
                      transport_cost |-> transport_cost, net_profit |-> net_profit,
                      profit_percent |-> profit_percent, time_minutes |-> time_minutes,
                      isk_per_hour |-> isk_per_hour, ai_score |-> ai_score,
                      ai_verdict |-> FinalVerdict(ai_score)] >>

\* analyze_item_routes for every item of type_ids in turn (lines 459-464); the
\* hubs of hub_prices are visited in the order of HUBS.
RECURSIVE FinalLoopOver(_, _, _)
FinalLoopOver(hubs, hd, k) ==
    LET n == Len(hubs)
    IN  IF k > Len(ITEMS) * n * n THEN << >>
        ELSE FinalCandidate(hd, ITEMS[((k - 1) \div (n * n)) + 1],
                            hubs[(((k - 1) \div n) % n) + 1], hubs[((k - 1) % n) + 1])
             \o FinalLoopOver(hubs, hd, k + 1)

\* The loops over the hubs of the model.
FinalLoop(hd, k) == FinalLoopOver(HUBS, hd, k)

\* A list that keeps the order in which the routes were appended.
InsertByScoreAtEnd(sorted, r) == Append(sorted, r)

\* all_routes.sort(key=ai_score, reverse=True): stable
InsertByScore(sorted, r) ==
    LET n == Cardinality({ i \in 1..Len(sorted) : sorted[i].ai_score >= r.ai_score })
    IN  SubSeq(sorted, 1, n) \o << r >> \o SubSeq(sorted, n + 1, Len(sorted))

RECURSIVE SortByScore(_, _)
SortByScore(rest, sorted) ==
    IF rest = << >> THEN sorted
    ELSE SortByScore(Tail(rest), InsertByScore(sorted, Head(rest)))

\* find_optimized_routes, lines 455-478, after the fetch
find_optimized_routes_over(hubs, hd) ==
    LET all_routes == SortByScore(FinalLoopOver(hubs, hd, 1), << >>)
    IN  SubSeq(all_routes, 1, Min2(Len(all_routes), TopRoutes))

find_optimized_routes(hd) == find_optimized_routes_over(HUBS, hd)

-----------------------------------------------------------------------------
(* The market data provider: what a page request may answer *)

\* The provider puts orders of the item the routes are about on at most this
\* many leading pages of a region.
MaxContentPages == 1

\* Once it has served such a page, the provider has at most this many further
\* pages; a region whose pages hold none goes on past the page ceiling.
MaxTrailingPages == 1

FreshSell(hub) == Order(34, station_id[hub], FALSE, 100, 1000, TRUE, 11)

FreshBuy(hub) == Order(34, station_id[hub], TRUE, 150, 1000, TRUE, 11)

\* Sell orders of item 34 a content page may hold: a fresh one, and cheaper
\* ones that are 12 or 13 hours old, at another station, or undated.
SellChoices(hub) ==
    { FreshSell(hub),
      Order(34, station_id[hub], FALSE, 50, 1000, TRUE, 12),
      Order(34, station_id[hub], FALSE, 50, 1000, TRUE, 13),
      Order(34, OtherLocation, FALSE, 50, 1000, TRUE, 11),
      Order(34, station_id[hub], FALSE, 60, 1000, FALSE, 0) }

\* Buy orders of item 34 a content page may hold: a fresh one and a higher
\* one that is 13 hours old.
BuyChoices(hub) ==
    { FreshBuy(hub), Order(34, station_id[hub], TRUE, 200, 1000, TRUE, 13) }

\* A content page: a sell and a buy order of item 34, at most one of them
\* other than the fresh order at the hub's station.
ContentPages(hub) ==
    { << s, b >> : s \in SellChoices(hub), b \in { FreshBuy(hub) } }
    \cup { << s, b >> : s \in { FreshSell(hub) }, b \in BuyChoices(hub) }

\* A page without an order of item 34: one of the other requested item and
\* one of an item that was not requested.
OtherPage(hub) ==
    << Order(35, station_id[hub], FALSE, 100, 1000, TRUE, 11),
       Order(OtherItem, station_id[hub], TRUE, 150, 1000, TRUE, 11) >>

IsContent(orders) == \E o \in Range(orders) : o.type_id = 34

\* The non-empty pages the provider may return for page number p of a hub
\* of which it has served the pages counted in b.  The first page holds any
\* content page; a later content page holds the two fresh orders.
PageChoices(hub, p, b) ==
    (IF p = 1 THEN ContentPages(hub)
     ELSE IF p <= MaxContentPages THEN { << FreshSell(hub), FreshBuy(hub) >> }
     ELSE { })
    \cup (IF b.content = 0 \/ b.trailing < MaxTrailingPages
          THEN { OtherPage(hub) } ELSE { })

\* The provider's count of the pages it served, after one more.
Served(b, orders) ==
    IF IsContent(orders)
    THEN [b EXCEPT !.content = @ + 1, !.orders = @ \o orders]
    ELSE IF b.content > 0
    THEN [b EXCEPT !.trailing = @ + 1, !.orders = @ \o orders]
    ELSE [b EXCEPT !.orders = @ \o orders]

-----------------------------------------------------------------------------
(* The attributes of the finder object the hub tasks assign to *)

\* self.api_calls (efficient line 90, final line 195), self.total_orders and
\* self.fresh_orders (efficient lines 113-114).
SharedAttributes == { "api_calls", "total_orders", "fresh_orders" }

\* The task of hub assigned to the attributes attrs in this step.
RecordWrites(hub, attrs) ==
    written_by' = [a \in SharedAttributes |->
                     IF a \in attrs THEN written_by[a] \cup { hub } ELSE written_by[a]]

-----------------------------------------------------------------------------
(* The hub tasks of EfficientRouteFinder: fetch_region_data *)

\* Lines 104-132: what follows the loop, up to `return dict(items_data)`.
EffReturn(hub, orders, kind, calls) ==
    LET relevant == RelevantOrders(hub, orders)
    IN  /\ all_orders' = [all_orders EXCEPT ![hub] = orders]
        /\ relevant_orders' = [relevant_orders EXCEPT ![hub] = relevant]
        /\ total_orders' = total_orders + Len(orders)
        /\ fresh_orders' = fresh_orders + Len(relevant)
        /\ market_data' = [market_data EXCEPT ![hub] = ItemsData(relevant)]
        /\ task' = [task EXCEPT ![hub] = "returned"]
        /\ last_response' = [last_response EXCEPT ![hub] = kind]
        /\ api_calls' = calls
        /\ UNCHANGED page

\* The loop going on past the tenth page without leaving `while page <= 10`.
EffNoReturnAtCeiling(hub, orders) ==
    /\ all_orders' = [all_orders EXCEPT ![hub] = orders]
    /\ page' = [page EXCEPT ![hub] = @ + 1]
    /\ last_response' = [last_response EXCEPT ![hub] = "page"]
    /\ api_calls' = api_calls + 1
    /\ UNCHANGED << relevant_orders, total_orders, fresh_orders, market_data, task >>

\* The tenth page was not empty: page becomes 11, the loop ends, the task returns.
EffReturnAtCeiling(hub, orders) ==
    LET relevant == RelevantOrders(hub, orders)
    IN  /\ all_orders' = [all_orders EXCEPT ![hub] = orders]
        /\ relevant_orders' = [relevant_orders EXCEPT ![hub] = relevant]
        /\ total_orders' = total_orders + Len(orders)
        /\ fresh_orders' = fresh_orders + Len(relevant)
        /\ market_data' = [market_data EXCEPT ![hub] = ItemsData(relevant)]
        /\ task' = [task EXCEPT ![hub] = "returned"]
        /\ last_response' = [last_response EXCEPT ![hub] = "page"]
        /\ api_calls' = api_calls + 1
        /\ page' = [page EXCEPT ![hub] = @ + 1]

\* The exception of one hub task emptying the result of every hub.
EffFailAll(hub, kind, calls) ==
    /\ market_data' = [h \in HubSet |-> << >>]
    /\ task' = [task EXCEPT ![hub] = "failed"]
    /\ last_response' = [last_response EXCEPT ![hub] = kind]
    /\ api_calls' = calls
    /\ UNCHANGED << all_orders, relevant_orders, total_orders, fresh_orders, page >>

\* Lines 134-136: `except Exception: return {}`
EffFail(hub, kind, calls) ==
    /\ market_data' = [market_data EXCEPT ![hub] = << >>]
    /\ task' = [task EXCEPT ![hub] = "failed"]
    /\ last_response' = [last_response EXCEPT ![hub] = kind]
    /\ api_calls' = calls
    /\ UNCHANGED << all_orders, relevant_orders, total_orders, fresh_orders, page >>

\* One iteration of the loop of lines 85-102: the request of page[hub] and
\* the handling of its response, with what follows the loop when it ends.
\* "timeout" is the asyncio.TimeoutError the session raises out of the request
\* when its ClientTimeout expires; "get_raises" is any other exception.
EffFetchPage(hub) ==
    /\ phase = "fetch"
    /\ finder = "efficient"
    /\ task[hub] = "running"
    /\ page[hub] <= PageCeiling
    /\ requests' = [requests EXCEPT ![hub] = Append(@, page[hub])]
    /\ UNCHANGED << finder, orders_by_type, phase, routes >>
    /\ UNCHANGED << plannerVars, scorerVars, portfolioVars >>
    /\ \/ EffFail(hub, "get_raises", api_calls) /\ UNCHANGED book
       \/ EffFail(hub, "timeout", api_calls) /\ UNCHANGED book
       \/ EffReturn(hub, all_orders[hub], "not_found", api_calls + 1) /\ UNCHANGED book
       \/ EffReturn(hub, all_orders[hub], "error", api_calls + 1) /\ UNCHANGED book
       \/ EffFail(hub, "json_raises", api_calls + 1) /\ UNCHANGED book
       \/ EffReturn(hub, all_orders[hub], "empty", api_calls + 1) /\ UNCHANGED book
       \/ \E orders \in PageChoices(hub, page[hub], book[hub]) :
            /\ book' = [book EXCEPT ![hub] = Served(@, orders)]
            /\ IF page[hub] + 1 <= PageCeiling
               THEN /\ all_orders' = [all_orders EXCEPT ![hub] = @ \o orders]
                    /\ page' = [page EXCEPT ![hub] = @ + 1]
                    /\ last_response' = [last_response EXCEPT ![hub] = "page"]
                    /\ api_calls' = api_calls + 1
                    /\ UNCHANGED << relevant_orders, total_orders, fresh_orders,
                                    market_data, task >>
               ELSE EffReturnAtCeiling(hub, all_orders[hub] \o orders)
    /\ RecordWrites(hub,
          (IF api_calls' # api_calls THEN { "api_calls" } ELSE { })
          \cup (IF task'[hub] = "returned"
                THEN { "total_orders", "fresh_orders" } ELSE { }))

-----------------------------------------------------------------------------
(* The hub tasks of FinalOptimizedRouteFinder: fetch_hub_market_orders *)

\* Lines 219-220: `return dict(orders_by_type)`
FinalReturn(hub, by_type, kind, calls, next_page) ==
    /\ orders_by_type' = [orders_by_type EXCEPT ![hub] = by_type]
    /\ market_data' = [market_data EXCEPT ![hub] = by_type]
    /\ task' = [task EXCEPT ![hub] = "returned"]
    /\ last_response' = [last_response EXCEPT ![hub] = kind]
    /\ api_calls' = calls
    /\ page' = [page EXCEPT ![hub] = next_page]

\* An exception after which the loop requests the same page again.
FinalFailRetry(hub, kind, calls) ==
    /\ last_response' = [last_response EXCEPT ![hub] = kind]
    /\ api_calls' = calls
    /\ UNCHANGED << market_data, task, orders_by_type, page >>

\* Lines 222-224: `except Exception: return {}`
FinalFail(hub, kind, calls) ==
    /\ market_data' = [market_data EXCEPT ![hub] = << >>]
    /\ task' = [task EXCEPT ![hub] = "failed"]
    /\ last_response' = [last_response EXCEPT ![hub] = kind]
    /\ api_calls' = calls
    /\ UNCHANGED << orders_by_type, page >>

\* One iteration of the loop of lines 190-217: the request of page[hub] and
\* the handling of its response, with what follows the loop when it ends.
FinalFetchPage(hub) ==
    /\ phase = "fetch"
    /\ finder = "final"
    /\ task[hub] = "running"
    /\ page[hub] <= PageCeiling
    /\ requests' = [requests EXCEPT ![hub] = Append(@, page[hub])]
    /\ UNCHANGED << finder, all_orders, relevant_orders, total_orders,
                    fresh_orders, phase, routes >>
    /\ UNCHANGED << plannerVars, scorerVars, portfolioVars >>
    /\ \/ FinalFail(hub, "get_raises", api_calls) /\ UNCHANGED book
       \/ FinalFail(hub, "timeout", api_calls) /\ UNCHANGED book
       \/ FinalReturn(hub, orders_by_type[hub], "not_found", api_calls + 1, page[hub])
          /\ UNCHANGED book
       \/ FinalReturn(hub, orders_by_type[hub], "error", api_calls + 1, page[hub])
          /\ UNCHANGED book
       \/ FinalFail(hub, "json_raises", api_calls + 1) /\ UNCHANGED book
       \/ FinalReturn(hub, orders_by_type[hub], "empty", api_calls + 1, page[hub])
          /\ UNCHANGED book
       \/ \E orders \in PageChoices(hub, page[hub], book[hub]) :
            LET by_type == AppendByType(orders_by_type[hub], orders)
            IN  /\ book' = [book EXCEPT ![hub] = Served(@, orders)]
                /\ IF EnoughCoverage(by_type)
                   THEN FinalReturn(hub, by_type, "page", api_calls + 1, page[hub])
                   ELSE IF page[hub] + 1 <= PageCeiling
                   THEN /\ orders_by_type' = [orders_by_type EXCEPT ![hub] = by_type]
                        /\ page' = [page EXCEPT ![hub] = @ + 1]
                        /\ last_response' = [last_response EXCEPT ![hub] = "page"]
                        /\ api_calls' = api_calls + 1
                        /\ UNCHANGED << market_data, task >>
                   ELSE FinalReturn(hub, by_type, "page", api_calls + 1, page[hub] + 1)
    /\ RecordWrites(hub, IF api_calls' # api_calls THEN { "api_calls" } ELSE { })

-----------------------------------------------------------------------------
(* The evaluation, after asyncio.gather returned every hub's result *)

\* A join that returns as soon as one hub task is over.
AnyTaskDone == \E h \in HubSet : task[h] # "running"

\* get_all_market_data, line 147: `results = await asyncio.gather(*tasks)`
AllTasksDone == \A h \in HubSet : task[h] # "running"

\* find_efficient_routes, line 291: `routes = self.analyze_opportunities(market_data)`
AnalyzeEfficient ==
    /\ phase = "fetch"
    /\ finder = "efficient"
    /\ AllTasksDone
    /\ routes' = analyze_opportunities(market_data)
    /\ phase' = "done"
    /\ UNCHANGED << finder, task, page, all_orders, orders_by_type, relevant_orders,
                    market_data, requests, last_response, api_calls, total_orders,
                    fresh_orders, written_by, book, plannerVars, scorerVars, portfolioVars >>

\* find_optimized_routes, lines 455-478
AnalyzeFinal ==
    /\ phase = "fetch"
    /\ finder = "final"
    /\ AllTasksDone
    /\ routes' = find_optimized_routes(market_data)
    /\ phase' = "done"
    /\ UNCHANGED << finder, task, page, all_orders, orders_by_type, relevant_orders,
                    market_data, requests, last_response, api_calls, total_orders,
                    fresh_orders, written_by, book, plannerVars, scorerVars, portfolioVars >>

-----------------------------------------------------------------------------
(* A run of a route finder: the parallel fetch, then the evaluation *)

\* A finder constructed, its hub tasks about to request page 1.
FinderStart ==
    /\ task = [h \in HubSet |-> "running"]
    /\ page = [h \in HubSet |-> 1]
    /\ all_orders = [h \in HubSet |-> << >>]
    /\ orders_by_type = [h \in HubSet |-> << >>]
    /\ relevant_orders = [h \in HubSet |-> << >>]
    /\ market_data = [h \in HubSet |-> << >>]
    /\ requests = [h \in HubSet |-> << >>]
    /\ last_response = [h \in HubSet |-> "none"]
    /\ api_calls = 0
    /\ total_orders = 0
    /\ fresh_orders = 0
    /\ written_by = [a \in SharedAttributes |-> { }]
    /\ phase = "fetch"
    /\ routes = << >>
    /\ book = [h \in HubSet |-> [content |-> 0, trailing |-> 0, orders |-> << >>]]

CargoShip(n, capacity, range, consumption, cost, insurance) ==
    [name |-> n, cargo_capacity |-> capacity, jump_range |-> range,
     fuel_consumption |-> consumption, fuel_cost |-> cost,
     insurance_cost |-> insurance]

\* self.cargo_ships as __init__ builds it, in the order of the dict
InitialCargoShips ==
    << CargoShip("Mammoth", 620000, 50, 1000, 5000, 1000000),
       CargoShip("Fenrir", 1200000, 60, 1500, 5000, 1500000),
       CargoShip("Providence", 110000, 40, 800, 5000, 500000),
       CargoShip("Occator", 320000, 55, 1200, 5000, 800000),
       CargoShip("Ark", 130000, 45, 900, 5000, 600000) >>

\* No call of the jump planner made.
PlannerIdle ==
    /\ cargo_ships = InitialCargoShips
    /\ trade = NoCall
    /\ efficiency = NoCall

\* No call of a scorer made.
ScorerIdle ==
    /\ score_args = NoCall
    /\ score_result = NoCall
    /\ prev_call = NoCall

\* PortfolioManager.__init__, initial_capital: float = 1000000, in hundredths
\* of an ISK.
DefaultInitialCapital == 100000000

\* The portfolio manager as __init__ leaves it, no call of add_trade made.
PortfolioIdle ==
    /\ current_cash = DefaultInitialCapital
    /\ portfolio = << >>
    /\ trade_history = << >>
    /\ trade_calls = 0
    /\ add_trade_call = NoCall

Init ==
    /\ finder \in {"efficient", "final"}
    /\ FinderStart
    /\ PlannerIdle
    /\ ScorerIdle
    /\ PortfolioIdle

Next ==
    \/ \E hub \in HubSet : EffFetchPage(hub)
    \/ \E hub \in HubSet : FinalFetchPage(hub)
    \/ AnalyzeEfficient
    \/ AnalyzeFinal

Spec == Init /\ [][Next]_vars

-----------------------------------------------------------------------------
(* What a hub task retained, and the orders behind a route *)

RECURSIVE ConcatByType(_, _)
ConcatByType(by_type, k) ==
    IF k > Len(ITEMS) THEN << >>
    ELSE (IF ITEMS[k] \in DOMAIN by_type THEN by_type[ITEMS[k]] ELSE << >>)
         \o ConcatByType(by_type, k + 1)

\* The raw orders a hub task kept out of the pages it fetched: relevant_orders
\* in the efficient finder, the lists of orders_by_type in the final finder.
Retained(hub) ==
    IF finder = "efficient" THEN relevant_orders[hub]
    ELSE ConcatByType(orders_by_type[hub], 1)

\* The raw orders behind the result a hub task returned to the evaluation.
Returned(hub) ==
    IF task[hub] # "returned" THEN << >>
    ELSE IF finder = "efficient" THEN relevant_orders[hub]
    ELSE ConcatByType(market_data[hub], 1)

\* The orders a route was priced and sized from: the sell orders of its item
\* at its buy hub and the buy orders of its item at its sell hub.
Contributing(r) ==
    { o \in Range(Returned(r.buy_hub)) : o.type_id = r.type_id /\ IsSell(o) }
    \cup { o \in Range(Returned(r.sell_hub)) : o.type_id = r.type_id /\ IsBuy(o) }

Stopped(hub) == task[hub] # "running"

-----------------------------------------------------------------------------
(* C1: freshness of the orders behind a route *)

\* C1: for every route a route finder produced, every order that contributed
\* to its buyPrice, its sellPrice or its summed volumes is dated and less than
\* 12 hours old.  The final finder never looks at `issued`, so this fails.
C1_OnlyFreshOrdersContribute ==
    phase = "done" =>
        \A i \in 1..Len(routes) : \A o \in Contributing(routes[i]) :
            o.issued_ok /\ o.issued_age < 12

\* The same statement of the efficient finder alone, which filters with
\* is_fresh before it groups the orders.
EfficientOnlyFreshOrdersContribute ==
    (phase = "done" /\ finder = "efficient") =>
        \A i \in 1..Len(routes) : \A o \in Contributing(routes[i]) :
            o.issued_ok /\ o.issued_age < 12

-----------------------------------------------------------------------------
(* C3: the paginated scan *)

\* Every order of the pages a hub task was served has been scanned into what
\* the task keeps: into all_orders in the efficient finder, and, for an order
\* of a requested item, into orders_by_type in the final finder.
NoOrderSkipped(hub) ==
    IF finder = "efficient"
    THEN task[hub] # "failed" => all_orders[hub] = book[hub].orders
    ELSE \A o \in Range(book[hub].orders) :
            o.type_id \in ItemSet =>
                /\ o.type_id \in DOMAIN orders_by_type[hub]
                /\ o \in Range(orders_by_type[hub][o.type_id])

\* C3: for every hub the scan goes on after each successful non-empty page,
\* so a hub task that stopped right after such a page stopped at the page
\* ceiling, and no order of a page it was served is skipped.
C3_ScanRunsToEndOfBook ==
    \A hub \in HubSet :
        /\ (Stopped(hub) /\ last_response[hub] = "page") => page[hub] > PageCeiling
        /\ NoOrderSkipped(hub)

\* What holds of both finders: a hub task that stopped right after a
\* successful non-empty page either reached the page ceiling or is a task of
\* the final finder whose kept orders cover at least 80% of the requested
\* items; every order of the pages it was served has been scanned.
ScanRunsToEndOrCoverage ==
    \A hub \in HubSet :
        /\ (Stopped(hub) /\ last_response[hub] = "page") =>
              \/ page[hub] > PageCeiling
              \/ /\ finder = "final"
                 /\ Cardinality(DOMAIN orders_by_type[hub]) * 10 >= Len(ITEMS) * 8
        /\ NoOrderSkipped(hub)

-----------------------------------------------------------------------------
(* C4: what a hub task retains *)

\* C4: every order a hub task retained is of a requested item and is located
\* at the hub's station.  The final finder filters on type_id alone.
C4_RetainedAtStationAndRequested ==
    \A hub \in HubSet : \A o \in Range(Retained(hub)) :
        o.type_id \in ItemSet /\ o.location_id = station_id[hub]

\* The same statement of the efficient finder alone.
EfficientRetainedAtStationAndRequested ==
    finder = "efficient" =>
        \A hub \in HubSet : \A o \in Range(Retained(hub)) :
            o.type_id \in ItemSet /\ o.location_id = station_id[hub]

-----------------------------------------------------------------------------
(* The evaluation alone, on order books drawn from small sets *)

\* The longest list of sell orders, and of buy orders, of a drawn order book.
MaxOrdersPerSide == 2

\* The (price, volume) pairs of the drawn sell orders and buy orders.
SellQuotes == << << 100, 600 >>, << 120, 10000 >> >>

BuyQuotes == << << 90, 600 >>, << 105, 8 >>, << 150, 8 >>, << 200, 8000 >> >>

\* The lists of 1 to MaxOrdersPerSide quotes, in the order of the quotes: the
\* evaluation takes the minimum, the maximum and the sum of a list, which do
\* not depend on the order of its orders.
QuoteLists(quotes) ==
    UNION { { [i \in 1..n |-> quotes[f[i]]] :
                f \in { g \in [1..n -> 1..Len(quotes)] :
                          \A i \in 1..(n - 1) : g[i] <= g[i + 1] } } :
            n \in 1..MaxOrdersPerSide }

QuoteBooks == QuoteLists(SellQuotes) \X QuoteLists(BuyQuotes)

\* The page of fresh orders of item 34 at the hub's station with these quotes.
RECURSIVE QuotedOrders(_, _, _)
QuotedOrders(hub, is_buy, quotes) ==
    IF quotes = << >> THEN << >>
    ELSE << Order(34, station_id[hub], is_buy, Head(quotes)[1], Head(quotes)[2], TRUE, 11) >>
         \o QuotedOrders(hub, is_buy, Tail(quotes))

QuotedPage(hub, qb) == QuotedOrders(hub, FALSE, qb[1]) \o QuotedOrders(hub, TRUE, qb[2])

\* The state when gather returns, every hub task having been served one page
\* and then a 404: the state after EffFetchPage or FinalFetchPage twice a hub.
InitEval ==
    /\ finder \in {"efficient", "final"}
    /\ \E qb \in [HubSet -> QuoteBooks] :
          book = [h \in HubSet |->
                    [content |-> 1, trailing |-> 0, orders |-> QuotedPage(h, qb[h])]]
    /\ task = [h \in HubSet |-> "returned"]
    /\ page = [h \in HubSet |-> 2]
    /\ requests = [h \in HubSet |-> << 1, 2 >>]
    /\ last_response = [h \in HubSet |-> "not_found"]
    /\ api_calls = 2 * Len(HUBS)
    /\ written_by = [a \in SharedAttributes |->
                       IF a = "api_calls" \/ finder = "efficient" THEN HubSet ELSE { }]
    /\ phase = "fetch"
    /\ routes = << >>
    /\ IF finder = "efficient"
       THEN /\ all_orders = [h \in HubSet |-> book[h].orders]
            /\ relevant_orders = [h \in HubSet |-> RelevantOrders(h, book[h].orders)]
            /\ market_data = [h \in HubSet |-> ItemsData(relevant_orders[h])]
            /\ orders_by_type = [h \in HubSet |-> << >>]
            /\ total_orders = SumSeq([i \in 1..Len(HUBS) |-> Len(all_orders[HUBS[i]])])
            /\ fresh_orders = SumSeq([i \in 1..Len(HUBS) |-> Len(relevant_orders[HUBS[i]])])
       ELSE /\ all_orders = [h \in HubSet |-> << >>]
            /\ relevant_orders = [h \in HubSet |-> << >>]
            /\ orders_by_type = [h \in HubSet |-> AppendByType(<< >>, book[h].orders)]
            /\ market_data = orders_by_type
            /\ total_orders = 0
            /\ fresh_orders = 0
    /\ PlannerIdle
    /\ ScorerIdle
    /\ PortfolioIdle

NextEval == AnalyzeEfficient \/ AnalyzeFinal

SpecEval == InitEval /\ [][NextEval]_vars

-----------------------------------------------------------------------------
(* C2: the quantity of a route *)

\* The summed volume_remain of the sell orders, or the buy orders, of an item
\* among the orders a hub task returned.
ReturnedVolume(hub, type_id, is_buy) ==
    LET Mine(o) == o.type_id = type_id /\ o.is_buy_order = is_buy
    IN  SumVolumeRemain(SelectSeq(Returned(hub), Mine))

MaxTradeSize == IF finder = "efficient" THEN 5000 ELSE 1000

\* C2: for every produced route, quantity is the least of the summed volume of
\* the sell orders at the buy hub, the summed volume of the buy orders at the
\* sell hub, and the maximum trade size (5000 in the efficient finder, 1000
\* in the final finder).
C2_QuantityIsMinOfVolumesAndCap ==
    phase = "done" =>
        \A i \in 1..Len(routes) :
            LET r == routes[i]
                sell_volume == ReturnedVolume(r.buy_hub, r.type_id, FALSE)
                buy_volume  == ReturnedVolume(r.sell_hub, r.type_id, TRUE)
            IN  /\ r.quantity <= sell_volume
                /\ r.quantity <= buy_volume
                /\ r.quantity <= MaxTradeSize
                /\ r.quantity \in { sell_volume, buy_volume, MaxTradeSize }

\* The efficient finder returned a route from a sell volume of 10000 and a buy
\* volume of 8000 with quantity 5000.
C2_Witness ==
    /\ phase = "done"
    /\ finder = "efficient"
    /\ \E i \in 1..Len(routes) :
          /\ ReturnedVolume(routes[i].buy_hub, routes[i].type_id, FALSE) = 10000
          /\ ReturnedVolume(routes[i].sell_hub, routes[i].type_id, TRUE) = 8000
          /\ routes[i].quantity = 5000

-----------------------------------------------------------------------------
(* JumpPlanner: the detailed transport costing *)

\* Distances and jump ranges are tenths of a light year, costs are ISK,
\* cargo capacities are m3 and cargo volumes are hundredths of a m3.

\* self.system_distances
system_distances ==
    ( << "Jita", "Amarr" >>    :> 152 @@
      << "Jita", "Dodixie" >>  :> 128 @@
      << "Jita", "Rens" >>     :> 185 @@
      << "Jita", "Hek" >>      :> 221 @@
      << "Amarr", "Dodixie" >> :> 83  @@
      << "Amarr", "Rens" >>    :> 257 @@
      << "Amarr", "Hek" >>     :> 194 @@
      << "Dodixie", "Rens" >>  :> 92  @@
      << "Dodixie", "Hek" >>   :> 116 @@
      << "Rens", "Hek" >>      :> 68 )

\* The estimate for a pair that is not in the table, 20.0 light years.
DefaultDistance == 200

\* self.item_volumes, hundredths of a m3 per unit, for the items of the model
item_volumes ==
    ( "Tritanium" :> 1 @@ "Merlin" :> 1000000 @@ "Raven" :> 5000000 )

\* The volume of an item that is not in the table, 0.01 m3.
DefaultItemVolume == 1

get_distance(system1, system2) ==
    IF << system1, system2 >> \in DOMAIN system_distances
    THEN system_distances[<< system1, system2 >>]
    ELSE IF << system2, system1 >> \in DOMAIN system_distances
    THEN system_distances[<< system2, system1 >>]
    ELSE DefaultDistance

\* math.ceil(distance / ship.jump_range)
calculate_jumps(distance, ship) ==
    (distance + ship.jump_range - 1) \div ship.jump_range

calculate_fuel_cost(jumps, ship) == jumps * ship.fuel_consumption * ship.fuel_cost

\* 5 minutes per jump
MinutesPerJump == 5

\* calculate_route_cost.  cost_per_m3 is total_cost / cargo_capacity, kept as
\* a ratio of thousands of ISK to thousands of m3: every total cost and every
\* capacity of the table is a multiple of 1000.
calculate_route_cost(origin, destination, ship) ==
    LET distance == get_distance(origin, destination)
        jumps == calculate_jumps(distance, ship)
        fuel_cost == calculate_fuel_cost(jumps, ship)
        insurance_cost == ship.insurance_cost
        total_cost == fuel_cost + insurance_cost
    IN  [origin |-> origin, destination |-> destination, ship_type |-> ship.name,
         total_distance |-> distance, jumps_required |-> jumps,
         fuel_cost |-> fuel_cost, insurance_cost |-> insurance_cost,
         total_cost |-> total_cost, cargo_capacity |-> ship.cargo_capacity,
         cost_per_m3 |-> IF ship.cargo_capacity > 0
                         THEN Rat(total_cost \div 1000, ship.cargo_capacity \div 1000)
                         ELSE Rat(0, 1),
         estimated_time |-> jumps * MinutesPerJump]

\* `cargo_volume <= ship.cargo_capacity`, the volume in hundredths of a m3
Fits(cargo_volume, ship) == cargo_volume <= ship.cargo_capacity * 100

\* No ship chosen: the None of find_optimal_ship.
NoShip == [name |-> "None"]

\* The loop of find_optimal_ship from ship k on; best_cost is a one-element
\* list holding best_cost_per_m3, or the empty list for float('inf').
RECURSIVE OptimalShipLoop(_, _, _, _, _, _)
OptimalShipLoop(origin, destination, cargo_volume, k, best_ship, best_cost) ==
    IF k > Len(cargo_ships) THEN best_ship
    ELSE LET ship == cargo_ships[k]
             route == calculate_route_cost(origin, destination, ship)
             better == /\ Fits(cargo_volume, ship)
                       /\ \/ best_cost = << >>
                          \/ /\ best_cost # << >>
                             /\ RatLess(route.cost_per_m3, best_cost[1])
         IN  IF better
             THEN OptimalShipLoop(origin, destination, cargo_volume, k + 1,
                                  ship, << route.cost_per_m3 >>)
             ELSE OptimalShipLoop(origin, destination, cargo_volume, k + 1,
                                  best_ship, best_cost)

\* find_optimal_ship without the comparison of the costs: the first ship of
\* the table that holds the cargo.
find_first_fitting_ship(origin, destination, cargo_volume) ==
    LET fitting == { k \in 1..Len(cargo_ships) : Fits(cargo_volume, cargo_ships[k]) }
    IN  IF fitting = {} THEN NoShip ELSE cargo_ships[SetMin(fitting)]

find_optimal_ship(origin, destination, cargo_volume) ==
    OptimalShipLoop(origin, destination, cargo_volume, 1, NoShip, << >>)

\* The alternative routes of analyze_transport_efficiency from ship k on.
RECURSIVE AlternativeRoutes(_, _, _, _, _)
AlternativeRoutes(origin, destination, total_volume, optimal_ship, k) ==
    IF k > Len(cargo_ships) THEN << >>
    ELSE LET ship == cargo_ships[k]
             rest == AlternativeRoutes(origin, destination, total_volume,
                                       optimal_ship, k + 1)
         IN  IF ship.name # optimal_ship.name /\ Fits(total_volume, ship)
             THEN << calculate_route_cost(origin, destination, ship) >> \o rest
             ELSE rest

\* analyze_transport_efficiency.  profit_margin is net_profit over
\* buy_price * quantity, the ratio the code multiplies by 100.
analyze_transport_efficiency(item_name, quantity, buy_price, sell_price, origin, destination) ==
    LET volume_per_unit == IF item_name \in DOMAIN item_volumes
                           THEN item_volumes[item_name] ELSE DefaultItemVolume
        total_volume == quantity * volume_per_unit
        gross_profit == (sell_price - buy_price) * quantity
        optimal_ship == find_optimal_ship(origin, destination, total_volume)
        transport_cost == IF optimal_ship # NoShip
                          THEN calculate_route_cost(origin, destination, optimal_ship).total_cost
                          ELSE 0
        net_profit == gross_profit - transport_cost
    IN  [status |-> "returned",
         item_name |-> item_name, quantity |-> quantity,
         volume_per_unit |-> volume_per_unit, total_volume |-> total_volume,
         buy_price |-> buy_price, sell_price |-> sell_price,
         gross_profit |-> gross_profit, transport_cost |-> transport_cost,
         net_profit |-> net_profit,
         profit_margin |-> IF buy_price * quantity > 0
                           THEN Rat(net_profit, buy_price * quantity)
                           ELSE Rat(0, 1),
         recommended_ship |-> IF optimal_ship # NoShip THEN optimal_ship.name
                              ELSE "No suitable ship",
         alternative_routes |-> AlternativeRoutes(origin, destination, total_volume,
                                                  optimal_ship, 1)]

\* The most units of a trade.
MaxQuantity == 25

\* The systems of a trade: the five of the table and one that is not in it.
Systems == { "Jita", "Amarr", "Dodixie", "Rens", "Hek", "Perimeter" }

\* The items of a trade: three of the table and one that is not in it.
TradeItems == { "Tritanium", "Merlin", "Raven", "Unknown Item" }

\* The prices of a trade, ISK per unit.
TradeBuyPrices == { 1000000 }

TradeSellPrices == { 900000, 1500000 }

InitPlanner ==
    /\ finder = "efficient"
    /\ FinderStart
    /\ cargo_ships = InitialCargoShips
    /\ trade \in [status : {"called"}, item_name : TradeItems,
                  quantity : 1..MaxQuantity, buy_price : TradeBuyPrices,
                  sell_price : TradeSellPrices, origin : Systems,
                  destination : Systems]
    /\ efficiency = NoCall
    /\ ScorerIdle
    /\ PortfolioIdle

AnalyzeTransport ==
    /\ trade.status = "called"
    /\ efficiency.status = "none"
    /\ efficiency' = analyze_transport_efficiency(trade.item_name, trade.quantity,
                        trade.buy_price, trade.sell_price, trade.origin,
                        trade.destination)
    /\ UNCHANGED << cargo_ships, trade, finderVars, scorerVars, portfolioVars >>

NextPlanner == AnalyzeTransport

SpecPlanner == InitPlanner /\ [][NextPlanner]_vars

-----------------------------------------------------------------------------
(* C5, C6: the ship of a trade *)

\* The ships whose cargo capacity holds the volume of the trade.
FittingShips ==
    { k \in 1..Len(cargo_ships) : Fits(efficiency.total_volume, cargo_ships[k]) }

\* The flat-rate cost of the trade: buy_price * quantity * cost_multiplier.
FlatRateCost ==
    (trade.buy_price * trade.quantity
     * TravelFor(trade.origin, trade.destination).cost_multiplier) \div 1000

\* C5: a trade whose volume exceeds the capacity of every ship is discarded or
\* costed at the flat rate; it is never returned with another transport cost.
C5_NoShipDiscardsOrFlatRate ==
    (efficiency.status # "none" /\ FittingShips = {}) =>
        \/ efficiency.status = "discarded"
        \/ efficiency.transport_cost = FlatRateCost

\* C6: a recommended ship holds the volume of the trade, and no ship that
\* holds it costs strictly less per m3 on the route.
C6_ChosenShipFitsAndIsCheapestPerVolume ==
    (efficiency.status = "returned" /\ efficiency.recommended_ship # "No suitable ship") =>
        \E k \in FittingShips :
            /\ cargo_ships[k].name = efficiency.recommended_ship
            /\ \A j \in FittingShips :
                  ~RatLess(calculate_route_cost(trade.origin, trade.destination,
                                                cargo_ships[j]).cost_per_m3,
                           calculate_route_cost(trade.origin, trade.destination,
                                                cargo_ships[k]).cost_per_m3)

\* A ship was recommended for a volume that one ship of the table cannot
\* hold, another fitting ship costing strictly more per m3.
C6_Witness ==
    /\ efficiency.status = "returned"
    /\ efficiency.recommended_ship # "No suitable ship"
    /\ Cardinality(FittingShips) \in 2..(Len(cargo_ships) - 1)
    /\ \E j, k \in FittingShips :
          /\ cargo_ships[k].name = efficiency.recommended_ship
          /\ RatLess(calculate_route_cost(trade.origin, trade.destination,
                                          cargo_ships[k]).cost_per_m3,
                     calculate_route_cost(trade.origin, trade.destination,
                                          cargo_ships[j]).cost_per_m3)

-----------------------------------------------------------------------------
(* The two scorers, called on their own *)

\* analyze_item_routes, lines 331-347: the verdict of a route from its
\* ai_score, "dropped" for a route the filter skips.
FinalRouteVerdict(ai_score) ==
    IF FinalApproves(ai_score) THEN FinalVerdict(ai_score) ELSE "dropped"

\* One call of a scorer.  profit_pct is in whole percent, isk_per_hour in
\* units of 10 ISK per hour.
ScoreCall(args) ==
    IF args.scorer = "final"
    THEN LET ai_score == _evaluate_route_ai(Rat(args.profit_pct, 1), args.quantity,
                             Rat(args.isk_per_hour, 1), args.net_profit,
                             args.jumps, args.available, args.demand)
         IN  [status |-> "returned", score |-> ai_score,
              verdict |-> FinalRouteVerdict(ai_score)]
    ELSE [status |-> "returned",
          score |-> ai_evaluate_score(Rat(args.profit_pct, 1), args.total_profit,
                                      args.volume),
          verdict |-> ai_evaluate(Rat(args.profit_pct, 1), args.total_profit,
                                  args.volume)]

\* The values a call draws each argument from: one on each side of every
\* threshold of the scorer.
FinalProfitPcts == { 5, 6, 8, 11, 16, 21 }

FinalIskPerHours == { 3500000, 3500001, 5000001, 7500001, 10000001, 15000001 }

FinalNetProfits == { 500000, 500001, 1000001, 2000001, 5000001 }

FinalJumps == { 11, 12, 18, 25 }

FinalVolumes == { 60, 200, 501, 2000 }

EffProfitPcts == { 2, 3, 6, 11, 16, 26, 51, 101 }

EffTotalProfits == { 100000, 100001, 500001, 1000001, 10000001 }

EffVolumes == { 20, 21, 101, 1001 }

FinalArgs ==
    [status : {"called"}, scorer : {"final"}, profit_pct : FinalProfitPcts,
     quantity : {100}, isk_per_hour : FinalIskPerHours,
     net_profit : FinalNetProfits, jumps : FinalJumps,
     available : FinalVolumes, demand : FinalVolumes]

EfficientArgs ==
    [status : {"called"}, scorer : {"efficient"}, profit_pct : EffProfitPcts,
     total_profit : EffTotalProfits, volume : EffVolumes]

InitScorer ==
    /\ finder = "efficient"
    /\ FinderStart
    /\ PlannerIdle
    /\ score_args \in FinalArgs \cup EfficientArgs
    /\ score_result = NoCall
    /\ prev_call = NoCall
    /\ PortfolioIdle

\* The scorer returns.
Evaluate ==
    /\ score_args.status = "called"
    /\ score_result.status = "none"
    /\ score_result' = ScoreCall(score_args)
    /\ UNCHANGED << score_args, prev_call, finderVars, plannerVars, portfolioVars >>

\* The scorer is called again with one argument replaced.
CallAgain(scorer, field, value) ==
    /\ score_result.status = "returned"
    /\ score_args.scorer = scorer
    /\ prev_call' = [status |-> "returned", args |-> score_args, result |-> score_result]
    /\ score_args' = [score_args EXCEPT ![field] = value]
    /\ score_result' = ScoreCall(score_args')
    /\ UNCHANGED << finderVars, plannerVars, portfolioVars >>

RaiseProfitPct ==
    \/ \E v \in FinalProfitPcts :
          v > score_args.profit_pct /\ CallAgain("final", "profit_pct", v)
    \/ \E v \in EffProfitPcts :
          v > score_args.profit_pct /\ CallAgain("efficient", "profit_pct", v)

RaiseIskPerHour ==
    \E v \in FinalIskPerHours :
        /\ score_args.scorer = "final"
        /\ v > score_args.isk_per_hour
        /\ CallAgain("final", "isk_per_hour", v)

RaiseNetProfit ==
    \/ \E v \in FinalNetProfits :
          /\ score_args.scorer = "final"
          /\ v > score_args.net_profit
          /\ CallAgain("final", "net_profit", v)
    \/ \E v \in EffTotalProfits :
          /\ score_args.scorer = "efficient"
          /\ v > score_args.total_profit
          /\ CallAgain("efficient", "total_profit", v)

RaiseAvailable ==
    \E v \in FinalVolumes :
        /\ score_args.scorer = "final"
        /\ v > score_args.available
        /\ CallAgain("final", "available", v)

RaiseDemand ==
    \E v \in FinalVolumes :
        /\ score_args.scorer = "final"
        /\ v > score_args.demand
        /\ CallAgain("final", "demand", v)

FewerJumps ==
    \E v \in FinalJumps :
        /\ score_args.scorer = "final"
        /\ v < score_args.jumps
        /\ CallAgain("final", "jumps", v)

RaiseVolume ==
    \E v \in EffVolumes :
        /\ score_args.scorer = "efficient"
        /\ v > score_args.volume
        /\ CallAgain("efficient", "volume", v)

NextScorer ==
    \/ Evaluate
    \/ RaiseProfitPct
    \/ RaiseIskPerHour
    \/ RaiseNetProfit
    \/ RaiseAvailable
    \/ RaiseDemand
    \/ FewerJumps
    \/ RaiseVolume

SpecScorer == InitScorer /\ [][NextScorer]_vars

-----------------------------------------------------------------------------
(* C7: the verdict of a score *)

\* The tiers as the specification states them.
StatedTier(s) ==
    IF s >= 85 THEN "EXCELLENT"
    ELSE IF s >= 75 THEN "VERY GOOD"
    ELSE IF s >= 65 THEN "GOOD"
    ELSE IF s >= 50 THEN "CONSIDER"
    ELSE IF s >= 35 THEN "WEAK"
    ELSE "SKIP"

\* C7: the verdict of a score is EXCELLENT from 85, VERY GOOD from 75, GOOD
\* from 65, CONSIDER from 50, WEAK from 35 and SKIP below 35; a route that is
\* dropped without a verdict is one of the tiers SKIP and WEAK.
C7_VerdictTiersAsStated ==
    score_result.status = "returned" =>
        IF score_result.verdict = "dropped"
        THEN StatedTier(score_result.score) \in { "SKIP", "WEAK" }
        ELSE score_result.verdict = StatedTier(score_result.score)

\* C7 as the code has it: the final finder drops a score below 40 and calls
\* the rest EXCELLENT above 85, VERY GOOD above 75, GOOD above 65 and DECENT
\* otherwise; ai_evaluate of the efficient finder answers EXCELLENT from 80,
\* STRONG from 65, GOOD from 50, CONSIDER from 35, WEAK from 20 and SKIP below.
C7_VerdictTiersOfEachScorer ==
    score_result.status = "returned" =>
        LET s == score_result.score
            v == score_result.verdict
        IN  IF score_args.scorer = "final"
            THEN /\ (v = "EXCELLENT") = (s >= 86)
                 /\ (v = "VERY GOOD") = (s \in 76..85)
                 /\ (v = "GOOD") = (s \in 66..75)
                 /\ (v = "DECENT") = (s \in 40..65)
                 /\ (v = "dropped") = (s <= 39)
            ELSE /\ (v = "EXCELLENT") = (s >= 80)
                 /\ (v = "STRONG") = (s \in 65..79)
                 /\ (v = "GOOD") = (s \in 50..64)
                 /\ (v = "CONSIDER") = (s \in 35..49)
                 /\ (v = "WEAK") = (s \in 20..34)
                 /\ (v = "SKIP") = (s <= 19)

\* The final finder scored a route 85 and called it VERY GOOD.
C7_Witness ==
    /\ score_result.status = "returned"
    /\ score_args.scorer = "final"
    /\ score_result.score = 85
    /\ score_result.verdict = "VERY GOOD"

-----------------------------------------------------------------------------
(* C8, C9: the score from one call to the next *)

\* The latest call differs from the one before in one argument alone, which
\* it raised.
RaisedOnly(field) ==
    /\ prev_call.status = "returned"
    /\ DOMAIN prev_call.args = DOMAIN score_args
    /\ field \in DOMAIN score_args
    /\ score_args[field] > prev_call.args[field]
    /\ \A g \in DOMAIN score_args \ {field} : score_args[g] = prev_call.args[g]

\* The latest call differs from the one before in one argument alone, which
\* it lowered.
LoweredOnly(field) ==
    /\ prev_call.status = "returned"
    /\ DOMAIN prev_call.args = DOMAIN score_args
    /\ field \in DOMAIN score_args
    /\ score_args[field] < prev_call.args[field]
    /\ \A g \in DOMAIN score_args \ {field} : score_args[g] = prev_call.args[g]

\* C8: raising one of profit percent, ISK per hour, net profit, available
\* volume or demand volume, or lowering the jumps, with every other argument
\* held, never lowers the score.
C8_MonotonicInEveryFactor ==
    /\ \A f \in { "profit_pct", "isk_per_hour", "net_profit", "total_profit",
                  "available", "demand", "volume" } :
          RaisedOnly(f) => score_result.score >= prev_call.result.score
    /\ LoweredOnly("jumps") => score_result.score >= prev_call.result.score

\* C8 as the code has it: the score never falls when profit percent, ISK per
\* hour, net profit or the volume of the efficient scorer is raised or the
\* jumps are lowered; when the available or the demand volume of the final
\* scorer is raised it falls by 5 at most, the points of the market balance.
C8_MonotonicButForMarketBalance ==
    /\ \A f \in { "profit_pct", "isk_per_hour", "net_profit", "total_profit",
                  "volume" } :
          RaisedOnly(f) => score_result.score >= prev_call.result.score
    /\ LoweredOnly("jumps") => score_result.score >= prev_call.result.score
    /\ \A f \in { "available", "demand" } :
          RaisedOnly(f) => score_result.score >= prev_call.result.score - 5

\* The available volume alone was raised and the score fell by 5.
C8_Witness ==
    /\ RaisedOnly("available")
    /\ score_result.score = prev_call.result.score - 5

\* C9: of two calls that differ in the profit percent alone, the one with
\* the larger profit percent never scores less.
C9_MonotonicInProfitPercent ==
    RaisedOnly("profit_pct") => score_result.score >= prev_call.result.score

\* A scorer was called with a profit percent of 16 and again with 21, every
\* other argument the same, and the score rose.
C9_Witness ==
    /\ RaisedOnly("profit_pct")
    /\ score_result.score > prev_call.result.score
    /\ score_args.profit_pct = 21
    /\ prev_call.args.profit_pct = 16

-----------------------------------------------------------------------------
(* C10: the range of a score *)

\* The points of each factor of a call, summed.
Contributions(args) ==
    IF args.scorer = "final"
    THEN ProfitPctPoints(Rat(args.profit_pct, 1))
         + IskPerHourPoints(Rat(args.isk_per_hour, 1))
         + NetProfitPoints(args.net_profit)
         + LiquidityPoints(args.available, args.demand)
         + DistancePoints(args.jumps)
         + BalancePoints(args.available, args.demand)
    ELSE EffProfitPctPoints(Rat(args.profit_pct, 1))
         + EffTotalProfitPoints(args.total_profit)
         + EffVolumePoints(args.volume)

\* C10: a score is between 0 and 100, and it is the sum of the points of the
\* factors, capped at 100.
C10_ScoreIsCappedSumWithin0And100 ==
    score_result.status = "returned" =>
        /\ score_result.score \in 0..100
        /\ score_result.score = Min2(100, Contributions(score_args))

\* The final scorer returned 100, every factor at its most.
C10_Witness ==
    /\ score_result.status = "returned"
    /\ score_args.scorer = "final"
    /\ score_result.score = 100
    /\ Contributions(score_args) = 25 + 25 + 20 + 15 + 10 + 5

-----------------------------------------------------------------------------
(* C11: a failed fetch *)

\* The fetch of a hub failed: its last request met a non-success status or
\* raised an exception.
FetchFailed(hub) ==
    /\ Stopped(hub)
    /\ last_response[hub] \in { "error", "get_raises", "timeout", "json_raises" }

\* C11: if the fetch of a hub failed, by a non-success response or by an
\* exception on any page, the order set returned for the hub is empty, and no
\* route through the hub is produced.
C11_FailedFetchReturnsEmptySet ==
    \A hub \in HubSet :
        FetchFailed(hub) =>
            /\ market_data[hub] = << >>
            /\ \A i \in 1..Len(routes) :
                  routes[i].buy_hub # hub /\ routes[i].sell_hub # hub

\* What holds of both finders: a fetch that raised an exception returns the
\* empty set, and no route goes through its hub.
RaisedFetchReturnsEmptySet ==
    \A hub \in HubSet :
        task[hub] = "failed" =>
            /\ market_data[hub] = << >>
            /\ \A i \in 1..Len(routes) :
                  routes[i].buy_hub # hub /\ routes[i].sell_hub # hub

-----------------------------------------------------------------------------
(* C12: a failure stays with its hub *)

\* A step of a hub task, and the step of the run past the await of gather.
FetchStep(hub) == EffFetchPage(hub) \/ FinalFetchPage(hub)
EvaluationStep == AllTasksDone /\ phase = "fetch" /\ phase' = "done"

\* The event loop resumes every hub task whose request was answered or timed
\* out, and resumes the run once gather has returned.
FairSpec ==
    /\ Spec
    /\ \A hub \in HubSet : WF_vars(FetchStep(hub))
    /\ WF_phase(EvaluationStep)

\* The grouped orders of the pages a hub task was served.
ServedData(hub) ==
    IF finder = "efficient"
    THEN ItemsData(RelevantOrders(hub, book[hub].orders))
    ELSE AppendByType(<< >>, book[hub].orders)

\* What a hub task that stopped returns when only the pages it was served
\* itself count: the grouped orders of those pages, or the empty set of a
\* task that raised an exception.
OwnData(hub) == IF task[hub] = "returned" THEN ServedData(hub) ELSE << >>

SomeFetchFailed == \E hub \in HubSet : FetchFailed(hub)

\* The routes of the evaluation on the own data of every hub.
RoutesOfOwnData ==
    IF finder = "efficient"
    THEN analyze_opportunities([h \in HubSet |-> OwnData(h)])
    ELSE find_optimized_routes([h \in HubSet |-> OwnData(h)])

FailureContained ==
    SomeFetchFailed =>
        /\ \A hub \in HubSet : Stopped(hub) => market_data[hub] = OwnData(hub)
        /\ phase = "done" => routes = RoutesOfOwnData

-----------------------------------------------------------------------------
(* C13: a timeout after some pages *)

TimedOut(hub) == Stopped(hub) /\ last_response[hub] = "timeout"

\* C13: when the fetch of a hub times out after some pages were retrieved,
\* the evaluation proceeds with the orders of the pages retrieved before the
\* timeout: the hub returns partial results, not the empty set.
C13_TimeoutKeepsRetrievedPages ==
    \A hub \in HubSet :
        TimedOut(hub) => market_data[hub] = ServedData(hub)

\* What the finders do: the orders of the pages retrieved before a timeout
\* are dropped.
TimeoutDropsRetrievedPages ==
    \A hub \in HubSet :
        TimedOut(hub) => market_data[hub] = << >>

-----------------------------------------------------------------------------
(* C14: the page loop terminates *)

\* The loop of a hub is over after an empty page, after a not-found response
\* and past the page ceiling, and it never issued more requests than the
\* ceiling allows.
PageLoopBounded ==
    \A hub \in HubSet :
        /\ Len(requests[hub]) <= PageCeiling
        /\ last_response[hub] \in { "empty", "not_found" } => Stopped(hub)
        /\ page[hub] > PageCeiling => Stopped(hub)

\* C14: for each hub the page loop always terminates: it stops at the first
\* empty page, at the first not-found response, or when the page ceiling (10)
\* is reached, so at most 10 page requests are issued per hub per run,
\* whatever the provider returns.
C14_PageLoopTerminates ==
    /\ []PageLoopBounded
    /\ \A hub \in HubSet : <>Stopped(hub)

\* A hub task that stopped at the page ceiling: ten requests, each answered
\* with a page that was not empty.
C14_Witness ==
    \E hub \in HubSet :
        /\ Stopped(hub)
        /\ Len(requests[hub]) = PageCeiling
        /\ last_response[hub] = "page"
        /\ page[hub] = PageCeiling + 1

-----------------------------------------------------------------------------
(* C15: the evaluation waits for every hub task *)

\* C15: under every interleaving of the hub tasks, the evaluation starts only
\* after every hub task is over, having returned or failed: while the fetch
\* of a hub is in flight the run is in its fetch phase and no route has been
\* computed.
C15_EvaluationAfterEveryHubTask ==
    \A hub \in HubSet :
        task[hub] = "running" => (phase = "fetch" /\ routes = << >>)

\* The evaluation computed a route after hub tasks that stopped at different
\* pages, one of them on a response that was no page.
C15_Witness ==
    /\ phase = "done"
    /\ routes # << >>
    /\ \E a, b \in HubSet :
          /\ Len(requests[a]) < Len(requests[b])
          /\ last_response[a] # "page"

-----------------------------------------------------------------------------
(* C16: what the hub tasks share *)

\* C16: the hub tasks share no mutable state: no variable is written by more
\* than one hub task during the fetch phase.
C16_NoVariableWrittenByTwoHubTasks ==
    \A a \in SharedAttributes : Cardinality(written_by[a]) <= 1

\* What the hub tasks keep to themselves: the value a task returns is the
\* data of the pages it was served itself, whatever the other tasks did.
ResultSlotsNotShared ==
    \A hub \in HubSet : Stopped(hub) => market_data[hub] = OwnData(hub)

-----------------------------------------------------------------------------
(* C17: the pages a hub task requests *)

\* The responses after which a request failed: a status that is neither 200
\* nor 404, or an exception.
FailedResponses == { "error", "get_raises", "timeout", "json_raises" }

PagesInOrder ==
    \A hub \in HubSet :
        /\ \A i \in 1..Len(requests[hub]) : requests[hub][i] = i
        /\ last_response[hub] \in FailedResponses => Stopped(hub)

NoRequestOnceStopped ==
    \A hub \in HubSet : Stopped(hub) => requests'[hub] = requests[hub]

\* C17: the page numbers a hub task requests are exactly 1, 2, ..., k, in
\* increasing order and without a repeat: page N+1 is requested only once the
\* response for page N was handled, and after a failed request (a non-success
\* status or an exception) the task retries nothing and requests nothing more.
C17_PagesRequestedInOrderWithoutRetry ==
    /\ []PagesInOrder
    /\ [][NoRequestOnceStopped]_vars

\* A hub task failed on its second request or later, and the other hub task
\* went on requesting pages after that.
C17_Witness ==
    \E f, h \in HubSet :
        /\ last_response[f] \in FailedResponses
        /\ Len(requests[f]) >= 2
        /\ Len(requests[h]) > Len(requests[f])

-----------------------------------------------------------------------------
(* C18: no route without a price gap *)

\* The prices of the sell orders, or the buy orders, of an item among the
\* orders a hub task returned.
ReturnedPrices(hub, type_id, is_buy) ==
    { o.price : o \in { x \in Range(Returned(hub)) :
                          x.type_id = type_id /\ x.is_buy_order = is_buy } }

\* C18: no produced route has sell_price <= buy_price, where buy_price is the
\* lowest price of a sell order at the buy hub and sell_price is the highest
\* price of a buy order at the sell hub.
C18_NoRouteWithoutPriceGap ==
    phase = "done" =>
        \A i \in 1..Len(routes) :
            LET r == routes[i]
            IN  /\ r.buy_price = SetMin(ReturnedPrices(r.buy_hub, r.type_id, FALSE))
                /\ r.sell_price = SetMax(ReturnedPrices(r.sell_hub, r.type_id, TRUE))
                /\ r.sell_price > r.buy_price

\* The evaluation produced a route where it saw two sell prices at the buy
\* hub and none in the opposite direction, in which the highest buy price is
\* below the lowest sell price.
C18_Witness ==
    /\ phase = "done"
    /\ \E i \in 1..Len(routes) :
          LET r == routes[i]
          IN  /\ Cardinality(ReturnedPrices(r.buy_hub, r.type_id, FALSE)) = 2
              /\ ReturnedPrices(r.sell_hub, r.type_id, FALSE) # { }
              /\ ReturnedPrices(r.buy_hub, r.type_id, TRUE) # { }
              /\ SetMax(ReturnedPrices(r.buy_hub, r.type_id, TRUE))
                    < SetMin(ReturnedPrices(r.sell_hub, r.type_id, FALSE))
              /\ \A j \in 1..Len(routes) : routes[j].buy_hub # r.sell_hub

-----------------------------------------------------------------------------
(* C19: net profit is gross profit less the transport cost *)

\* The flat-rate transport cost of a route of a finder.
RouteFlatRateCost(r) ==
    r.buy_price * r.quantity
    * (IF finder = "efficient" THEN EffCostMultiplier
       ELSE TravelFor(r.buy_hub, r.sell_hub).cost_multiplier)

RouteGrossProfit(r) == (r.sell_price - r.buy_price) * r.quantity * 1000

\* Every route a finder returned has the net profit of its prices and its
\* quantity, at the flat rate.
RouteNetProfitIsGrossMinusCost ==
    \A i \in 1..Len(routes) :
        /\ routes[i].net_profit = RouteGrossProfit(routes[i]) - RouteFlatRateCost(routes[i])
        /\ finder = "final" =>
              /\ routes[i].gross_profit = RouteGrossProfit(routes[i])
              /\ routes[i].transport_cost = RouteFlatRateCost(routes[i])

\* The modelled transport cost of a trade: the cost of the route with the
\* ship chosen for its volume, and the flat rate when no ship holds it.
TradeTransportCost ==
    LET ship == find_optimal_ship(trade.origin, trade.destination, efficiency.total_volume)
    IN  IF ship # NoShip
        THEN calculate_route_cost(trade.origin, trade.destination, ship).total_cost
        ELSE FlatRateCost

AnalysisNetProfitIsGrossMinusReportedCost ==
    efficiency.status = "returned" =>
        /\ efficiency.net_profit = efficiency.gross_profit - efficiency.transport_cost
        /\ FittingShips # { } => efficiency.transport_cost = TradeTransportCost

-----------------------------------------------------------------------------
(* C20: no SKIP route is ranked *)

\* The score of a returned route, from the figures of the route.
RouteScore(r) ==
    IF finder = "efficient"
    THEN ai_evaluate_score(r.profit_percent, r.net_profit, r.quantity)
    ELSE r.ai_score

\* The verdict the scorer of the finder gives the score of a route.
RouteVerdict(r) ==
    IF finder = "efficient" THEN EfficientVerdict(RouteScore(r))
    ELSE FinalVerdict(RouteScore(r))

\* The verdict of the efficient finder on the best prices and the quantity
\* of an item bought at hub a and sold at hub b, "none" where the finder
\* evaluates no route.
EffPairVerdict(type_id, a, b) ==
    IF a = b \/ ReturnedPrices(a, type_id, FALSE) = { }
       \/ ReturnedPrices(b, type_id, TRUE) = { }
    THEN "none"
    ELSE LET buy_price  == SetMin(ReturnedPrices(a, type_id, FALSE))
             sell_price == SetMax(ReturnedPrices(b, type_id, TRUE))
             quantity   == Min3(ReturnedVolume(a, type_id, FALSE),
                                ReturnedVolume(b, type_id, TRUE), EffMaxTradeSize)
             net_profit == (sell_price - buy_price) * quantity * 1000
                           - buy_price * quantity * EffCostMultiplier
         IN  IF sell_price <= buy_price \/ quantity <= 0 THEN "none"
             ELSE ai_evaluate(Rat(net_profit, buy_price * quantity * 10),
                              net_profit, quantity)

\* C20: no route with the verdict SKIP reaches the ranking: every route of
\* the returned list carries the verdict of its own score, and that verdict
\* is not SKIP.
C20_NoSkipRouteIsRanked ==
    phase = "done" =>
        \A i \in 1..Len(routes) :
            /\ routes[i].ai_verdict = RouteVerdict(routes[i])
            /\ routes[i].ai_verdict # "SKIP"
            /\ StatedTier(RouteScore(routes[i])) # "SKIP"

\* The efficient finder evaluated a pair of hubs to SKIP in one direction and
\* returned the route of the other direction only.
C20_Witness ==
    /\ phase = "done"
    /\ finder = "efficient"
    /\ \E t \in ItemSet, a, b \in HubSet :
          /\ EffPairVerdict(t, a, b) = "SKIP"
          /\ \E i \in 1..Len(routes) :
                routes[i].type_id = t /\ routes[i].buy_hub = b /\ routes[i].sell_hub = a
          /\ \A i \in 1..Len(routes) :
                ~(routes[i].type_id = t /\ routes[i].buy_hub = a /\ routes[i].sell_hub = b)

-----------------------------------------------------------------------------
(* The evaluation over the five hubs of the HUBS dict *)

\* An order book of a hub: for each requested item the (price, volume) of
\* its sell order and of its buy order.
RankBook(sell34, buy34, sell35, buy35) ==
    (34 :> [sell |-> sell34, buy |-> buy34]) @@ (35 :> [sell |-> sell35, buy |-> buy35])

\* The order books a hub is drawn from: one that sells low and buys high,
\* one that sells higher and buys the second item a little above that, and
\* one that buys a little above the low price.
RankBooks ==
    { RankBook(<< 100, 600 >>, << 200, 8000 >>, << 100, 600 >>, << 200, 8000 >>),
      RankBook(<< 120, 10000 >>, << 200, 8000 >>, << 120, 10000 >>, << 122, 8000 >>),
      RankBook(<< 100, 1000 >>, << 105, 1000 >>, << 100, 1000 >>, << 105, 1000 >>) }

\* The page of fresh orders at the hub's station with the quotes of a book.
RECURSIVE RankPage(_, _, _)
RankPage(hub, rb, k) ==
    IF k > Len(ITEMS) THEN << >>
    ELSE LET q == rb[ITEMS[k]]
         IN  << Order(ITEMS[k], station_id[hub], FALSE, q.sell[1], q.sell[2], TRUE, 11),
                Order(ITEMS[k], station_id[hub], TRUE, q.buy[1], q.buy[2], TRUE, 11) >>
             \o RankPage(hub, rb, k + 1)

\* The state when gather returns, the task of each of the five hubs having
\* been served one page and then a 404.
InitRank ==
    /\ finder \in {"efficient", "final"}
    /\ \E rb \in [AllHubSet -> RankBooks] :
          book = [h \in AllHubSet |->
                    [content |-> 1, trailing |-> 0, orders |-> RankPage(h, rb[h], 1)]]
    /\ task = [h \in AllHubSet |-> "returned"]
    /\ page = [h \in AllHubSet |-> 2]
    /\ requests = [h \in AllHubSet |-> << 1, 2 >>]
    /\ last_response = [h \in AllHubSet |-> "not_found"]
    /\ api_calls = 2 * Len(ALL_HUBS)
    /\ written_by = [a \in SharedAttributes |->
                       IF a = "api_calls" \/ finder = "efficient" THEN AllHubSet ELSE { }]
    /\ phase = "fetch"
    /\ routes = << >>
    /\ IF finder = "efficient"
       THEN /\ all_orders = [h \in AllHubSet |-> book[h].orders]
            /\ relevant_orders = [h \in AllHubSet |-> RelevantOrders(h, book[h].orders)]
            /\ market_data = [h \in AllHubSet |-> ItemsData(relevant_orders[h])]
            /\ orders_by_type = [h \in AllHubSet |-> << >>]
            /\ total_orders = SumSeq([i \in 1..Len(ALL_HUBS) |-> Len(all_orders[ALL_HUBS[i]])])
            /\ fresh_orders =
                  SumSeq([i \in 1..Len(ALL_HUBS) |-> Len(relevant_orders[ALL_HUBS[i]])])
       ELSE /\ all_orders = [h \in AllHubSet |-> << >>]
            /\ relevant_orders = [h \in AllHubSet |-> << >>]
            /\ orders_by_type = [h \in AllHubSet |-> AppendByType(<< >>, book[h].orders)]
            /\ market_data = orders_by_type
            /\ total_orders = 0
            /\ fresh_orders = 0
    /\ PlannerIdle
    /\ ScorerIdle
    /\ PortfolioIdle

\* find_efficient_routes, line 291, with the five hubs
AnalyzeEfficientAllHubs ==
    /\ phase = "fetch"
    /\ finder = "efficient"
    /\ \A h \in AllHubSet : task[h] # "running"
    /\ routes' = analyze_opportunities_over(ALL_HUBS, market_data)
    /\ phase' = "done"
    /\ UNCHANGED << finder, task, page, all_orders, orders_by_type, relevant_orders,
                    market_data, requests, last_response, api_calls, total_orders,
                    fresh_orders, written_by, book, plannerVars, scorerVars, portfolioVars >>

\* find_optimized_routes, lines 455-478, with the five hubs
AnalyzeFinalAllHubs ==
    /\ phase = "fetch"
    /\ finder = "final"
    /\ \A h \in AllHubSet : task[h] # "running"
    /\ routes' = find_optimized_routes_over(ALL_HUBS, market_data)
    /\ phase' = "done"
    /\ UNCHANGED << finder, task, page, all_orders, orders_by_type, relevant_orders,
                    market_data, requests, last_response, api_calls, total_orders,
                    fresh_orders, written_by, book, plannerVars, scorerVars, portfolioVars >>

\* analyze_opportunities called once more on the market data of the run
EvaluateAgainEfficient ==
    /\ phase = "done"
    /\ finder = "efficient"
    /\ \A h \in AllHubSet : task[h] # "running"
    /\ routes' = analyze_opportunities_over(ALL_HUBS, market_data)
    /\ phase' = "again"
    /\ UNCHANGED << finder, task, page, all_orders, orders_by_type, relevant_orders,
                    market_data, requests, last_response, api_calls, total_orders,
                    fresh_orders, written_by, book, plannerVars, scorerVars, portfolioVars >>

\* The analysis, the sort and the cut of find_optimized_routes (lines 455-478)
\* once more on the hub data of the run
EvaluateAgainFinal ==
    /\ phase = "done"
    /\ finder = "final"
    /\ \A h \in AllHubSet : task[h] # "running"
    /\ routes' = find_optimized_routes_over(ALL_HUBS, market_data)
    /\ phase' = "again"
    /\ UNCHANGED << finder, task, page, all_orders, orders_by_type, relevant_orders,
                    market_data, requests, last_response, api_calls, total_orders,
                    fresh_orders, written_by, book, plannerVars, scorerVars, portfolioVars >>

NextRank ==
    \/ AnalyzeEfficientAllHubs
    \/ AnalyzeFinalAllHubs
    \/ EvaluateAgainEfficient
    \/ EvaluateAgainFinal

SpecRank == InitRank /\ [][NextRank]_vars

\* The routes that survive the filters of the evaluation, in the order in
\* which the loops append them: the list the finder sorts.
Survivors ==
    IF finder = "efficient" THEN EffLoopOver(ALL_HUBS, market_data, 1)
    ELSE FinalLoopOver(ALL_HUBS, market_data, 1)

-----------------------------------------------------------------------------
(* C21: the returned list is sorted and holds the best routes *)

\* The key a finder sorts by: net profit (efficient), score (final).
PrimaryKey(r) == IF finder = "efficient" THEN r.net_profit ELSE r.ai_score

\* The length of the returned list: the final finder returns `all_routes[:25]`,
\* the efficient finder every route.
ReturnedLength(n) == IF finder = "efficient" THEN n ELSE Min2(n, TopRoutes)

\* C21: the returned list is in non-increasing order of its primary key and
\* is the top N of the surviving routes: it holds N distinct surviving
\* routes (all of them when there are no more than N), and no omitted route
\* has a strictly higher primary key than a returned route.
C21_SortedTopOfSurvivors ==
    phase = "done" =>
        /\ Len(routes) = ReturnedLength(Len(Survivors))
        /\ \A i \in 1..Len(routes) : routes[i] \in Range(Survivors)
        /\ \A i, j \in 1..Len(routes) : i < j =>
              /\ routes[i] # routes[j]
              /\ PrimaryKey(routes[i]) >= PrimaryKey(routes[j])
        /\ \A r \in Range(Survivors) \ Range(routes) :
              \A i \in 1..Len(routes) : PrimaryKey(r) <= PrimaryKey(routes[i])

\* The final finder returned 25 of more surviving routes, with different
\* scores among them, and left out a route of a strictly lower score that the
\* loops had appended before a returned one.
C21_Witness ==
    /\ phase = "done"
    /\ finder = "final"
    /\ Len(Survivors) > TopRoutes
    /\ Len(routes) = TopRoutes
    /\ PrimaryKey(routes[1]) > PrimaryKey(routes[TopRoutes])
    /\ \E i, j \in 1..Len(Survivors) :
          /\ i < j
          /\ Survivors[i] \notin Range(routes)
          /\ Survivors[j] \in Range(routes)
          /\ PrimaryKey(Survivors[i]) < PrimaryKey(routes[TopRoutes])

-----------------------------------------------------------------------------
(* C22: the evaluation is idempotent *)

-----------------------------------------------------------------------------
(* C23: a route joins two hubs *)

\* C23: no produced route has its buy hub equal to its sell hub.
C23_BuyHubDiffersFromSellHub ==
    \A i \in 1..Len(routes) : routes[i].buy_hub # routes[i].sell_hub

\* A hub whose highest buy price for an item is above its own lowest sell
\* price is the buy hub of a returned route and the sell hub of another.
C23_Witness ==
    /\ phase = "done"
    /\ \E h \in AllHubSet, i, j \in 1..Len(routes) :
          LET t == routes[i].type_id
          IN  /\ routes[i].buy_hub = h
              /\ routes[j].sell_hub = h
              /\ routes[j].type_id = t
              /\ SetMax(ReturnedPrices(h, t, TRUE)) > SetMin(ReturnedPrices(h, t, FALSE))

-----------------------------------------------------------------------------
(* C24: routes of equal primary key *)

\* The key a finder does not sort by: the score (efficient), the net profit
\* (final).
OtherKey(r) == IF finder = "efficient" THEN RouteScore(r) ELSE r.net_profit

\* C24: in the ranked list, routes of equal primary key are ordered by the
\* other key, the higher first: equal scores by net profit, equal net profits
\* by score.
C24_TiesOrderedByOtherKey ==
    \A i, j \in 1..Len(routes) :
        (i < j /\ PrimaryKey(routes[i]) = PrimaryKey(routes[j]))
            => OtherKey(routes[i]) >= OtherKey(routes[j])

-----------------------------------------------------------------------------
(* C25: ships of equal cost per m3 *)

\* Two ships of equal cost per m3 on every route, the second of twice the
\* capacity and twice the total cost of the first.
LightShip == CargoShip("Light", 100000, 50, 1000, 5000, 1000000)

HeavyShip == CargoShip("Heavy", 200000, 50, 2000, 5000, 2000000)

\* The tables self.cargo_ships holds: the one of __init__, and the two ships
\* above listed in either order.
ShipTables ==
    { InitialCargoShips, << LightShip, HeavyShip >>, << HeavyShip, LightShip >> }

InitShips ==
    /\ finder = "efficient"
    /\ FinderStart
    /\ cargo_ships \in ShipTables
    /\ trade \in [status : {"called"}, item_name : TradeItems,
                  quantity : 1..MaxQuantity, buy_price : TradeBuyPrices,
                  sell_price : TradeSellPrices, origin : Systems,
                  destination : Systems]
    /\ efficiency = NoCall
    /\ ScorerIdle
    /\ PortfolioIdle

NextShips == AnalyzeTransport

SpecShips == InitShips /\ [][NextShips]_vars

\* The route cost of ship k of the table for the trade.
ShipRoute(k) == calculate_route_cost(trade.origin, trade.destination, cargo_ships[k])

\* Ships j and k cost the same per m3.
SameCostPerM3(j, k) ==
    /\ ~RatLess(ShipRoute(j).cost_per_m3, ShipRoute(k).cost_per_m3)
    /\ ~RatLess(ShipRoute(k).cost_per_m3, ShipRoute(j).cost_per_m3)

TieSelectsFirstListed ==
    (efficiency.status = "returned" /\ efficiency.recommended_ship # "No suitable ship") =>
        \A j, k \in FittingShips :
            (cargo_ships[k].name = efficiency.recommended_ship /\ SameCostPerM3(j, k))
                => k <= j

\* With the table of __init__ no two ships cost the same per m3 on any route.
NoTieInInitialTable ==
    (cargo_ships = InitialCargoShips /\ efficiency.status = "returned") =>
        \A j, k \in 1..Len(cargo_ships) : SameCostPerM3(j, k) => j = k

-----------------------------------------------------------------------------
(* C26: the minimum profitability filter *)

\* The trade analyze_item_routes computes for an item and an ordered pair of
\* hubs, from the orders the hub tasks returned; "none" without a price on
\* either side.
FinalPair(type_id, a, b) ==
    IF a = b \/ ReturnedPrices(a, type_id, FALSE) = { }
       \/ ReturnedPrices(b, type_id, TRUE) = { }
    THEN [status |-> "none"]
    ELSE LET buy_price  == SetMin(ReturnedPrices(a, type_id, FALSE))
             sell_price == SetMax(ReturnedPrices(b, type_id, TRUE))
             max_buy    == Min2(ReturnedVolume(a, type_id, FALSE), FinalVolumeCap)
             max_sell   == Min2(ReturnedVolume(b, type_id, TRUE), FinalVolumeCap)
             quantity   == FinalQuantity(max_buy, max_sell)
             travel     == TravelFor(a, b)
             net_profit == (sell_price - buy_price) * quantity * 1000
                           - buy_price * quantity * travel.cost_multiplier
             profit_percent == Rat(net_profit, buy_price * quantity * 10)
             time_minutes   == travel.minutes + DockingMinutes
         IN  IF sell_price <= buy_price \/ quantity < FinalMinQuantity
             THEN [status |-> "none"]
             ELSE [status |-> "candidate", net_profit |-> net_profit,
                   profit_percent |-> profit_percent,
                   ai_score |-> _evaluate_route_ai(profit_percent, quantity,
                                    Rat(net_profit * 6, time_minutes), net_profit,
                                    travel.jumps, max_buy, max_sell)]

\* C26: every route of the final finder is a trade whose net profit is at
\* least 50,000 ISK and whose profit percent is at least 3: a trade below
\* either minimum is not among the routes, whatever it would score.
C26_NoRouteBelowTheMinimums ==
    (finder = "final" /\ phase # "fetch") =>
        \A i \in 1..Len(routes) :
            LET r == routes[i]
                c == FinalPair(r.type_id, r.buy_hub, r.sell_hub)
            IN  /\ c.status = "candidate"
                /\ c.net_profit = r.net_profit
                /\ c.profit_percent = r.profit_percent
                /\ c.net_profit >= FinalMinNetProfit
                /\ ~RatLt(c.profit_percent, FinalMinProfitPercent)

\* A trade of less than 3 percent that the scorer would approve is not among
\* the routes, and a route of exactly 3 percent is.
C26_Witness ==
    /\ finder = "final"
    /\ phase = "done"
    /\ \E type_id \in Range(ITEMS), a, b \in AllHubSet :
          LET c == FinalPair(type_id, a, b)
          IN  /\ c.status = "candidate"
              /\ RatLt(c.profit_percent, FinalMinProfitPercent)
              /\ c.net_profit >= FinalMinNetProfit
              /\ FinalApproves(c.ai_score)
              /\ \A i \in 1..Len(routes) :
                    << routes[i].type_id, routes[i].buy_hub, routes[i].sell_hub >>
                        # << type_id, a, b >>
    /\ \E i \in 1..Len(routes) :
          routes[i].profit_percent.num
              = FinalMinProfitPercent * routes[i].profit_percent.den

-----------------------------------------------------------------------------
(* C27: the travel data of a pair of hubs *)

\* The keys of TRAVEL_DATA that join hubs a and b, in either direction.
TravelKeys(a, b) == { key \in DOMAIN TRAVEL_DATA : { key[1], key[2] } = { a, b } }

\* C27: the transport cost and the time of every route of the final finder
\* are those of the TRAVEL_DATA entry of its two hubs, whichever of the two
\* directions the table lists; every two hubs are listed in exactly one
\* direction, so no route is costed at the default.
C27_MultiplierOfTheUnorderedPair ==
    (finder = "final" /\ phase # "fetch") =>
        \A i \in 1..Len(routes) :
            LET r == routes[i]
            IN  /\ Cardinality(TravelKeys(r.buy_hub, r.sell_hub)) = 1
                /\ \A key \in TravelKeys(r.buy_hub, r.sell_hub) :
                      /\ r.transport_cost
                            = r.buy_price * r.quantity * TRAVEL_DATA[key].cost_multiplier
                      /\ r.time_minutes = TRAVEL_DATA[key].minutes + DockingMinutes

\* Two routes of one item in opposite directions, of the same buy price and
\* quantity and the same transport cost, the table listing the pair in the
\* direction of the second.
C27_Witness ==
    /\ finder = "final"
    /\ phase = "done"
    /\ \E i, j \in 1..Len(routes) :
          /\ routes[i].type_id = routes[j].type_id
          /\ routes[i].buy_hub = routes[j].sell_hub
          /\ routes[i].sell_hub = routes[j].buy_hub
          /\ << routes[j].buy_hub, routes[j].sell_hub >> \in DOMAIN TRAVEL_DATA
          /\ << routes[i].buy_hub, routes[i].sell_hub >> \notin DOMAIN TRAVEL_DATA
          /\ routes[i].buy_price = routes[j].buy_price
          /\ routes[i].quantity = routes[j].quantity
          /\ routes[i].transport_cost = routes[j].transport_cost

-----------------------------------------------------------------------------
(* C28: the efficient finder returns no route without a net profit *)

\* The trade analyze_opportunities computes for an item and an ordered pair
\* of hubs, from the orders the hub tasks returned; "none" without a price on
\* either side, a price gap or a quantity.
EffPair(type_id, a, b) ==
    IF a = b \/ ReturnedPrices(a, type_id, FALSE) = { }
       \/ ReturnedPrices(b, type_id, TRUE) = { }
    THEN [status |-> "none"]
    ELSE LET buy_price  == SetMin(ReturnedPrices(a, type_id, FALSE))
             sell_price == SetMax(ReturnedPrices(b, type_id, TRUE))
             quantity   == Min3(ReturnedVolume(a, type_id, FALSE),
                                ReturnedVolume(b, type_id, TRUE), EffMaxTradeSize)
             net_profit == (sell_price - buy_price) * quantity * 1000
                           - buy_price * quantity * EffCostMultiplier
         IN  IF sell_price <= buy_price \/ quantity <= 0
             THEN [status |-> "none"]
             ELSE [status |-> "candidate", quantity |-> quantity,
                   net_profit |-> net_profit,
                   profit_percent |-> Rat(net_profit, buy_price * quantity * 10)]

\* The most points ai_evaluate gives a trade without a net profit.
MaxScoreWithoutProfit == 15

\* C28: every route analyze_opportunities returns has a net profit above 0; a
\* trade whose net profit is 0 or less scores at most 15 points, gets the SKIP
\* verdict and is not among the routes.
C28_EveryEfficientRouteHasNetProfit ==
    (finder = "efficient" /\ phase # "fetch") =>
        /\ \A i \in 1..Len(routes) : routes[i].net_profit > 0
        /\ \A type_id \in Range(ITEMS), a, b \in AllHubSet :
              LET c == EffPair(type_id, a, b)
              IN  (c.status = "candidate" /\ c.net_profit <= 0) =>
                      /\ ai_evaluate_score(c.profit_percent, c.net_profit, c.quantity)
                            <= MaxScoreWithoutProfit
                      /\ ai_evaluate(c.profit_percent, c.net_profit, c.quantity) = "SKIP"
                      /\ \A i \in 1..Len(routes) :
                            << routes[i].type_id, routes[i].buy_hub, routes[i].sell_hub >>
                                # << type_id, a, b >>

\* A trade of more than 1000 units at a net loss scored the 15 points, while
\* routes were returned.
C28_Witness ==
    /\ finder = "efficient"
    /\ phase = "done"
    /\ routes # << >>
    /\ \E type_id \in Range(ITEMS), a, b \in AllHubSet :
          LET c == EffPair(type_id, a, b)
          IN  /\ c.status = "candidate"
              /\ c.net_profit < 0
              /\ c.quantity > 1000
              /\ ai_evaluate_score(c.profit_percent, c.net_profit, c.quantity)
                    = MaxScoreWithoutProfit

-----------------------------------------------------------------------------
(* PortfolioManager: add_trade *)

\* `fees = total_value * 0.01`: the trading fee, per cent of the value.
FeePerCent == 1

\* The buy test of add_trade that leaves the fee out.
InsufficientCashBeforeFees(cash, total_value, fees) == cash < total_value

\* add_trade, line 92: `self.current_cash < (total_value + fees)`
InsufficientCash(cash, total_value, fees) == cash < total_value + fees

\* add_trade, line 128: `type_id not in self.portfolio or
\* self.portfolio[type_id].quantity < quantity`
InsufficientHoldings(pf, type_id, quantity) ==
    type_id \notin DOMAIN pf \/ pf[type_id].quantity < quantity

\* The Trade record of a call.  trade_id and timestamp, read from the clock,
\* are left out.
TradeRecord(type_id, action, quantity, price) ==
    [type_id |-> type_id, action |-> action, quantity |-> quantity,
     price |-> price, total_value |-> quantity * price * 100,
     fees |-> quantity * price * FeePerCent]

\* _update_portfolio_metrics on one holding
UpdatedMetrics(item) ==
    IF item.quantity > 0
    THEN [item EXCEPT !.current_value = item.quantity * item.current_price * 100,
                      !.unrealized_pnl = item.quantity * item.current_price * 100
                                         - item.total_cost]
    ELSE item

\* _update_portfolio_metrics
_update_portfolio_metrics(pf) == [t \in DOMAIN pf |-> UpdatedMetrics(pf[t])]

\* The PortfolioItem a first buy of an item creates, lines 101-112.  avg_price
\* and unrealized_pnl_pct, ratios of the other fields, are left out.
NewPortfolioItem(type_id, price) ==
    [type_id |-> type_id, quantity |-> 0, current_price |-> price,
     total_cost |-> 0, current_value |-> 0, unrealized_pnl |-> 0]

\* What a call of add_trade leaves: the value returned and the three
\* attributes of self.
AddTradeOutcome(value, cash, pf, history) ==
    [value |-> value, current_cash |-> cash, portfolio |-> pf,
     trade_history |-> history]

\* A `return False` that has appended the Trade record it built to the
\* history.
RejectRecorded(cash, pf, history, trade_record) ==
    AddTradeOutcome(FALSE, cash, pf, Append(history, trade_record))

\* A `return False` of add_trade: nothing of self has been assigned to.
Reject(cash, pf, history, trade_record) == AddTradeOutcome(FALSE, cash, pf, history)

\* The buy branch of add_trade, lines 91-123, with the append and the metrics
\* update of lines 155-158.
ExecuteBuy(cash, pf, history, trade_record) ==
    LET type_id == trade_record.type_id
        held    == IF type_id \in DOMAIN pf THEN pf
                   ELSE pf @@ (type_id :> NewPortfolioItem(type_id, trade_record.price))
        new_quantity == held[type_id].quantity + trade_record.quantity
        new_cost     == held[type_id].total_cost + trade_record.total_value
        bought == [held EXCEPT ![type_id].quantity = new_quantity,
                               ![type_id].total_cost = new_cost,
                               ![type_id].current_price = trade_record.price]
    IN  AddTradeOutcome(TRUE, cash - (trade_record.total_value + trade_record.fees),
                        _update_portfolio_metrics(bought),
                        Append(history, trade_record))

\* The sell branch of add_trade, lines 127-152, with the append and the
\* metrics update of lines 155-158.  sold_cost is rounded down to the unit.
ExecuteSell(cash, pf, history, trade_record) ==
    LET type_id == trade_record.type_id
        current_quantity == pf[type_id].quantity
        current_cost     == pf[type_id].total_cost
        new_quantity == current_quantity - trade_record.quantity
        sold_cost    == IF current_quantity > 0
                        THEN (trade_record.quantity * current_cost) \div current_quantity
                        ELSE 0
        new_cost     == current_cost - sold_cost
        sold == [pf EXCEPT ![type_id].quantity = new_quantity,
                           ![type_id].total_cost = new_cost,
                           ![type_id].current_price = trade_record.price]
        kept == IF new_quantity = 0
                THEN [t \in DOMAIN pf \ { type_id } |-> pf[t]]
                ELSE sold
    IN  AddTradeOutcome(TRUE, cash + (trade_record.total_value - trade_record.fees),
                        _update_portfolio_metrics(kept),
                        Append(history, trade_record))

\* add_trade
add_trade(cash, pf, history, type_id, action, quantity, price) ==
    LET trade_record == TradeRecord(type_id, action, quantity, price)
    IN  IF action \notin { "buy", "sell" } THEN Reject(cash, pf, history, trade_record)
        ELSE IF quantity <= 0 \/ price <= 0 THEN Reject(cash, pf, history, trade_record)
        ELSE IF action = "buy"
        THEN IF InsufficientCash(cash, trade_record.total_value, trade_record.fees)
             THEN Reject(cash, pf, history, trade_record)
             ELSE ExecuteBuy(cash, pf, history, trade_record)
        ELSE IF InsufficientHoldings(pf, type_id, quantity)
             THEN Reject(cash, pf, history, trade_record)
             ELSE ExecuteSell(cash, pf, history, trade_record)

\* The most calls of add_trade of a run.
MaxTradeCalls == 3

\* The arguments of a call of add_trade: two items, the two actions and one
\* that is neither, quantities and prices (whole ISK) of either sign.
AddTradeTypeIds == { 34, 35 }

AddTradeActions == { "buy", "sell", "hold" }

AddTradeQuantities == { 0 - 1, 1, 2 }

AddTradePrices == { 0, 1, 2 }

\* The initial capitals of a portfolio manager, hundredths of an ISK: none,
\* 2.02 ISK (one unit at 2 ISK and its fee) and the default.
InitialCapitals == { 0, 202, DefaultInitialCapital }

InitPortfolio ==
    /\ finder = "efficient"
    /\ FinderStart
    /\ PlannerIdle
    /\ ScorerIdle
    /\ current_cash \in InitialCapitals
    /\ portfolio = << >>
    /\ trade_history = << >>
    /\ trade_calls = 0
    /\ add_trade_call = NoCall

AddTrade(type_id, action, quantity, price) ==
    /\ trade_calls < MaxTradeCalls
    /\ LET outcome == add_trade(current_cash, portfolio, trade_history,
                                type_id, action, quantity, price)
       IN  /\ current_cash' = outcome.current_cash
           /\ portfolio' = outcome.portfolio
           /\ trade_history' = outcome.trade_history
           /\ add_trade_call' = [status |-> "returned", type_id |-> type_id,
                                 action |-> action, quantity |-> quantity,
                                 price |-> price, value |-> outcome.value]
    /\ trade_calls' = trade_calls + 1
    /\ UNCHANGED << finderVars, plannerVars, scorerVars >>

NextPortfolio ==
    \E type_id \in AddTradeTypeIds, action \in AddTradeActions,
       quantity \in AddTradeQuantities, price \in AddTradePrices :
        AddTrade(type_id, action, quantity, price)

SpecPortfolio == InitPortfolio /\ [][NextPortfolio]_vars

-----------------------------------------------------------------------------
(* C29: the cash and the holdings are never negative *)

\* C29: after any calls of add_trade on a portfolio manager of non-negative
\* initial capital, current_cash is not negative, no holding has a negative
\* quantity, and no holding of quantity 0 is kept.
C29_CashAndHoldingsNeverNegative ==
    /\ current_cash >= 0
    /\ \A t \in DOMAIN portfolio : portfolio[t].quantity > 0

\* The first buy took the whole of the initial capital, and a sell of the
\* whole holding of the item has removed the item.
C29_Witness ==
    /\ add_trade_call.status = "returned"
    /\ add_trade_call.value
    /\ add_trade_call.action = "sell"
    /\ add_trade_call.type_id \notin DOMAIN portfolio
    /\ Len(trade_history) = 2
    /\ trade_history[1].action = "buy"
    /\ trade_history[1].total_value + trade_history[1].fees \in InitialCapitals
    /\ current_cash = trade_history[2].total_value - trade_history[2].fees

-----------------------------------------------------------------------------
(* C30: a rejected trade changes nothing *)

\* C30: a call of add_trade that returns False leaves current_cash, the
\* holdings and the trade history as they were.
C30_RejectedTradeChangesNothing ==
    [][(add_trade_call'.status = "returned" /\ ~add_trade_call'.value
        /\ trade_calls' = trade_calls + 1)
          => UNCHANGED << current_cash, portfolio, trade_history >>]_vars

\* The reason of the latest rejection.
RejectedFor(reason) ==
    /\ add_trade_call.status = "returned"
    /\ ~add_trade_call.value
    /\ trade_history # << >>
    /\ CASE reason = "action" -> add_trade_call.action \notin { "buy", "sell" }
         [] reason = "quantity" ->
               /\ add_trade_call.action \in { "buy", "sell" }
               /\ add_trade_call.quantity <= 0
         [] reason = "price" ->
               /\ add_trade_call.action \in { "buy", "sell" }
               /\ add_trade_call.quantity > 0
               /\ add_trade_call.price <= 0
         [] reason = "cash" ->
               /\ add_trade_call.action = "buy"
               /\ add_trade_call.quantity > 0
               /\ add_trade_call.price > 0
         [] reason = "holdings" ->
               /\ add_trade_call.action = "sell"
               /\ add_trade_call.quantity > 0
               /\ add_trade_call.price > 0
               /\ add_trade_call.type_id \in DOMAIN portfolio

\* A buy was rejected for want of cash after a trade had been executed, the
\* cash covering the value of the buy but not its fee.
C30_Witness ==
    /\ RejectedFor("cash")
    /\ current_cash >= add_trade_call.quantity * add_trade_call.price * 100

\* Each of the other reasons has rejected a call after a trade had been
\* executed.
RejectedForAction == RejectedFor("action")

RejectedForQuantity == RejectedFor("quantity")

RejectedForPrice == RejectedFor("price")

RejectedForHoldings == RejectedFor("holdings")

=============================================================================
